---- MODULE Spec2Model ----
(***************************************************************************)
(* Repair pipeline of the Forbes billionaires dataset                      *)
(* (src/src/repairs_lib.py).                                               *)
(*                                                                         *)
(* A table (polars DataFrame) is a sequence of rows; a row is a record     *)
(* with one field per schema column (src/src/data_lib.py).  A cell is an   *)
(* optional value: Null (polars null / Python None) is the empty tuple     *)
(* and a present value v is the one-element tuple <<v>>.  Text is a        *)
(* sequence of one-character strings, a date is a day number, a decimal    *)
(* is an integer.                                                          *)
(***************************************************************************)
EXTENDS Integers, Sequences, FiniteSets, TLC

VARIABLES
    dataset_type,   \* "billionaires" or "assets"
    prev,           \* the table handed to the most recent call
    df,             \* the current table (the result of the most recent call)
    people_filter,  \* Null (None) or Some(set of person names)
    cfg,            \* apply_0th .. apply_3rd of repair_all_orders
    op,             \* the most recent call: "none", "0th", "1st", "2nd", "3rd"
    pc,             \* where the run is
    disk,           \* the files: Null (absent) or Some(content) per path
    net,            \* the requests session: responses, URLs requested so far
    ret             \* what the most recent call returned, when not a table

vars == <<dataset_type, prev, df, people_filter, cfg, op, pc, disk, net, ret>>

\* What the repair library never touches: it does no file or network I/O.
world == <<disk, net, ret>>

(***************************************************************************)
(* Optional values                                                         *)
(***************************************************************************)
Null == <<>>

Some(v) == <<v>>

IsNull(c) == c = Null

Val(c) == c[1]

(***************************************************************************)
(* Bounds of the model                                                     *)
(***************************************************************************)
\* Largest number of rows of an input table.
MaxRows == 3

(***************************************************************************)
(* Text                                                                    *)
(***************************************************************************)
\* Characters str.strip() removes (Python whitespace).
Whitespace == {" ", "\t", "\n"}

\* Characters the regular expression class \d matches.
Digits == {"0", "1", "2", "3", "4", "5", "6", "7", "8", "9"}

\* Case folding used by the (?i) flag, on the letters of the model's alphabet.
Lower(c) ==
    CASE c = "U" -> "u" [] c = "N" -> "n" [] c = "K" -> "k"
      [] c = "O" -> "o" [] c = "W" -> "w" [] OTHER -> c

\* str.lstrip(): drop leading whitespace.
RECURSIVE LStrip(_)
LStrip(s) ==
    IF s # <<>> /\ Head(s) \in Whitespace THEN LStrip(Tail(s)) ELSE s

\* str.rstrip(): drop trailing whitespace.
RECURSIVE RStrip(_)
RStrip(s) ==
    IF s # <<>> /\ s[Len(s)] \in Whitespace
    THEN RStrip(SubSeq(s, 1, Len(s) - 1)) ELSE s

\* str.strip()
Strip(s) == RStrip(LStrip(s))

\* The literal "unknown" of both patterns.
UnknownWord == <<"u", "n", "k", "n", "o", "w", "n">>

\* s starts with the literal w, compared case-insensitively.
HasPrefixCI(s, w) ==
    /\ Len(s) >= Len(w)
    /\ \A i \in 1..Len(w) : Lower(s[i]) = w[i]

\* The regular-expression anchor $ at position i of s (i = number of
\* characters consumed): the end of the text, or just before a final newline.
AtDollar(s, i) ==
    \/ i = Len(s)
    \/ i = Len(s) - 1 /\ s[Len(s)] = "\n"

\* The first pattern without its end anchor: re.search(r"(?i)^unknown", s)
MatchUnknown_NoEndAnchor(s) == HasPrefixCI(s, UnknownWord)

\* re.search(r"(?i)^unknown$", s)
MatchUnknown(s) ==
    /\ HasPrefixCI(s, UnknownWord)
    /\ AtDollar(s, Len(UnknownWord))

\* re.search(r"(?i)^unknown_-?\d+$", s): after "unknown_" and an optional
\* "-", one or more digits up to the anchor.
MatchUnknownNumbered(s) ==
    LET lit == UnknownWord \o <<"_">>
        p   == Len(lit) + 1
    IN  /\ HasPrefixCI(s, lit)
        /\ \E m \in {0, 1} :
            /\ m = 1 => (Len(s) >= p /\ s[p] = "-")
            /\ \E e \in (p + m)..Len(s) :
                /\ \A i \in (p + m)..e : s[i] \in Digits
                /\ AtDollar(s, e)

\* clean_value without the test for text that is empty once trimmed.
clean_value_KeepEmpty(val) ==
    IF IsNull(val) THEN Null
    ELSE LET cleaned == Strip(Val(val))
         IN  IF MatchUnknown(cleaned) \/ MatchUnknownNumbered(cleaned)
             THEN Null
             ELSE Some(cleaned)

\* clean_value with the patterns tried on the text as given, before it is
\* trimmed.
clean_value_MatchUntrimmed(val) ==
    IF IsNull(val) THEN Null
    ELSE LET cleaned == Strip(Val(val))
         IN  IF cleaned = <<>> THEN Null
             ELSE IF MatchUnknown(Val(val)) \/ MatchUnknownNumbered(Val(val))
                  THEN Null
                  ELSE Some(cleaned)

\* The cleaning rule of one text cell.
clean_value(val) ==
    IF IsNull(val) THEN Null
    ELSE LET cleaned == Strip(Val(val))
         IN  IF cleaned = <<>> THEN Null
             ELSE IF MatchUnknown(cleaned) \/ MatchUnknownNumbered(cleaned)
                  THEN Null
                  ELSE Some(cleaned)

(***************************************************************************)
(* Schemas (src/src/data_lib.py)                                           *)
(***************************************************************************)
\* Columns of the billionaires schema, with their types.
get_billionaires_schema ==
    [date |-> "Date", personName |-> "Categorical", lastName |-> "Categorical",
     birthDate |-> "Date", gender |-> "Categorical",
     countryOfCitizenship |-> "Categorical", city |-> "Categorical",
     state |-> "Categorical", source |-> "Categorical",
     industries |-> "Categorical", finalWorth |-> "Decimal",
     estWorthPrev |-> "Decimal", archivedWorth |-> "Decimal",
     privateAssetsWorth |-> "Decimal"]

\* Columns of the assets schema, with their types.
get_assets_schema ==
    [date |-> "Date", personName |-> "Categorical",
     companyName |-> "Categorical", currencyCode |-> "Categorical",
     currentPrice |-> "Decimal", exchange |-> "Categorical",
     exchangeRate |-> "Decimal", exerciseOptionPrice |-> "Decimal",
     interactive |-> "Boolean", numberOfShares |-> "Decimal",
     sharePrice |-> "Decimal", ticker |-> "Categorical"]

\* df.schema of a table of the given dataset type.
SchemaOf(dtype) ==
    IF dtype = "assets" THEN get_assets_schema ELSE get_billionaires_schema

\* The dtype of a column of a row (df.schema[col]).
ColType(r, c) ==
    IF c \in DOMAIN get_billionaires_schema /\ DOMAIN r = DOMAIN get_billionaires_schema
    THEN get_billionaires_schema[c]
    ELSE get_assets_schema[c]

\* string_cols with the Categorical columns left out.
StringCols_Utf8Only(r) == {c \in DOMAIN r : ColType(r, c) = "Utf8"}

\* string_cols: the columns of a row whose dtype is Utf8 or Categorical.
StringCols(r) == {c \in DOMAIN r : ColType(r, c) \in {"Utf8", "Categorical"}}

\* A row whose every column is null.
NullRow(dtype) == [c \in DOMAIN SchemaOf(dtype) |-> Null]

(***************************************************************************)
(* 0th order: whitespace and unknown values                                *)
(***************************************************************************)
\* One row of df.select(all_exprs): every string column mapped through
\* clean_value, every other column passed through.
CleanRow(r) ==
    [c \in DOMAIN r |-> IF c \in StringCols(r) THEN clean_value(r[c]) ELSE r[c]]

\* The cleaned table; the rows keep their positions.  (dataset_type is only
\* logged by the code.)
clean_whitespace_and_unknowns(t) == [i \in 1..Len(t) |-> CleanRow(t[i])]

(***************************************************************************)
(* Tables: filtering, ordering                                             *)
(***************************************************************************)
\* df.filter(...) is SelectSeq: the rows satisfying the predicate, in their
\* order.

\* The rearrangements of the positions 1..n.
Perms(n) == {p \in [1..n -> 1..n] : \A i, j \in 1..n : p[i] = p[j] => i = j}

\* The rows of t in the order p.
Permute(t, p) == [i \in 1..Len(t) |-> t[p[i]]]

\* Perms(n) for the table lengths of the model, computed once.
PermsOfLength == [n \in 0..MaxRows |-> Perms(n)]

\* Every order of the rows of t.
Reorderings(t) ==
    {Permute(t, p) :
        p \in IF Len(t) <= MaxRows THEN PermsOfLength[Len(t)] ELSE Perms(Len(t))}

\* A sort is not asked to keep the order of equal keys (maintain_order is
\* left False): its results are all the orders of the rows in which every
\* row is followed by one that does not sort before it.

\* Ascending order of a nullable date column, nulls first.
DateAsc(a, b) == IsNull(a) \/ (~IsNull(b) /\ Val(a) <= Val(b))

\* Descending order of a nullable date column, nulls first.
DateDesc(a, b) == IsNull(a) \/ (~IsNull(b) /\ Val(a) >= Val(b))

\* pl.when(col == "").then(None).otherwise(col)
EmptyToNull(c) == IF c = Some(<<>>) THEN Null ELSE c

(***************************************************************************)
(* people_filter                                                           *)
(***************************************************************************)
\* "if people_filter:" is false for None and for the empty list.
FilterGiven(pf) == ~IsNull(pf) /\ Val(pf) # {}

\* pl.col("personName").is_in(people_filter) on one row: "true", "false", or
\* "null" for a null personName (a null operand gives a null result).
IsIn(r, pf) ==
    IF IsNull(r.personName) THEN "null"
    ELSE IF Val(r.personName) \in Val(pf) THEN "true" ELSE "false"

\* Logical not of a nullable boolean (~expr): null stays null.
Not3(b) == CASE b = "true" -> "false" [] b = "false" -> "true" [] OTHER -> "null"

\* relevant_data: filter keeps the rows whose predicate is true.
RelevantData(t, pf) == SelectSeq(t, LAMBDA r : IsIn(r, pf) = "true")

\* other_data: the rows for which the negated predicate is true.
OtherData(t, pf) == SelectSeq(t, LAMBDA r : Not3(IsIn(r, pf)) = "true")

(***************************************************************************)
(* 1st order: identity consistency                                         *)
(***************************************************************************)
\* fix_fields (default)
StaticFields == {"lastName", "birthDate", "gender"}

\* df_clean: empty lastName and gender become null.
CleanIdentityEmpty(t) ==
    [i \in 1..Len(t) |->
        [t[i] EXCEPT !.lastName = EmptyToNull(@), !.gender = EmptyToNull(@)]]

\* unique_ids: the distinct personName cells (null is one of them).
UniqueIds(t) == {t[i].personName : i \in 1..Len(t)}

\* person_data before sorting: the rows of one identity.
PersonRows(t, id) == SelectSeq(t, LAMBDA r : r.personName = id)

\* non_null[field][0] if any, else None, on rows sorted most recent first.
FirstNonNull(s, f) ==
    IF \E i \in 1..Len(s) : ~IsNull(s[i][f])
    THEN LET i == CHOOSE k \in 1..Len(s) :
                    /\ ~IsNull(s[k][f])
                    /\ \A j \in 1..(k - 1) : IsNull(s[j][f])
         IN  s[i][f]
    ELSE Null

\* The results of t.sort("date", descending=True).
SortedByDateDesc(t) ==
    {s \in Reorderings(t) :
        \A i \in 1..(Len(s) - 1) : DateDesc(s[i].date, s[i + 1].date)}

\* The canonical records one identity can get: one per result of the sort of
\* its rows by date, descending.
CanonicalRecords(t, id) ==
    {[f \in StaticFields |-> FirstNonNull(s, f)] :
        s \in SortedByDateDesc(PersonRows(CleanIdentityEmpty(t), id))}

\* The canonical tables the function can return: a function from the
\* identities of t to their canonical record (no identity, no column).
find_canonical_identity_values(t) ==
    LET ids  == UniqueIds(t)
        recs == UNION {CanonicalRecords(t, id) : id \in ids}
    IN  {c \in [ids -> recs] : \A id \in ids : c[id] \in CanonicalRecords(t, id)}

\* canonical_df.select(id_keys + ...) raises ColumnNotFoundError when the
\* canonical table was built from no record and so has no column.
ApplyRaises(canonical) == DOMAIN canonical = {}

\* apply_identity_fixes that keeps a static field already present and only
\* fills the missing ones with the canonical value.
apply_identity_fixes_KeepKnown(t, canonical) ==
    LET clean == CleanIdentityEmpty(t)
    IN  [i \in 1..Len(t) |->
            LET r       == clean[i]
                matched == ~IsNull(r.personName) /\ r.personName \in DOMAIN canonical
            IN  [c \in DOMAIN r |->
                    IF c \in StaticFields /\ IsNull(r[c]) /\ matched
                    THEN canonical[r.personName][c]
                    ELSE r[c]]]

\* apply_identity_fixes with an inner join: rows that match no canonical
\* record are left out.
apply_identity_fixes_InnerJoin(t, canonical) ==
    LET clean == SelectSeq(CleanIdentityEmpty(t),
                        LAMBDA r : ~IsNull(r.personName)
                                   /\ r.personName \in DOMAIN canonical)
    IN  [i \in 1..Len(clean) |->
            [c \in DOMAIN clean[i] |->
                IF c \in StaticFields THEN canonical[clean[i].personName][c]
                ELSE clean[i][c]]]

\* Left join on personName (a null key matches nothing), then every static
\* field is replaced by the joined value.
apply_identity_fixes(t, canonical) ==
    LET clean == CleanIdentityEmpty(t)
    IN  [i \in 1..Len(t) |->
            LET r       == clean[i]
                matched == ~IsNull(r.personName) /\ r.personName \in DOMAIN canonical
            IN  [c \in DOMAIN r |->
                    IF c \in StaticFields
                    THEN IF matched THEN canonical[r.personName][c] ELSE Null
                    ELSE r[c]]]

\* The rows the canonical values are computed from.
IdentityRelevant(t, pf) == IF FilterGiven(pf) THEN RelevantData(t, pf) ELSE t

\* The call raises.
IdentityRaises(t, pf) ==
    \E c \in find_canonical_identity_values(IdentityRelevant(t, pf)) : ApplyRaises(c)

\* The tables the call can return.
repair_identity_consistency(t, pf) ==
    {IF FilterGiven(pf)
     THEN OtherData(t, pf) \o apply_identity_fixes(RelevantData(t, pf), c)
     ELSE apply_identity_fixes(t, c) :
        c \in find_canonical_identity_values(IdentityRelevant(t, pf))}

(***************************************************************************)
(* 2nd order: forward/backward fill                                        *)
(***************************************************************************)
\* fields of clean_second_order_empty_strings
SlowFields == {"countryOfCitizenship", "city", "state", "source", "industries"}

\* existing: the slowly-changing fields that are columns of the table.
ExistingSlowFields(t) ==
    IF t = <<>> THEN SlowFields ELSE SlowFields \cap DOMAIN t[1]

\* df_clean: empty strings of the slowly-changing fields become null.
clean_second_order_empty_strings(t) ==
    [i \in 1..Len(t) |->
        [c \in DOMAIN t[i] |->
            IF c \in ExistingSlowFields(t) THEN EmptyToNull(t[i][c]) ELSE t[i][c]]]

\* The order of df.sort(["personName", "date"]): nulls first in both columns.
\* personName is Categorical, ordered by the string cache, so nameRank is the
\* position the cache gave each name.
PersonDateOrder(a, b, nameRank) ==
    \/ IsNull(a.personName) /\ ~IsNull(b.personName)
    \/ /\ ~IsNull(a.personName) /\ ~IsNull(b.personName)
       /\ nameRank[a.personName] < nameRank[b.personName]
    \/ a.personName = b.personName /\ DateAsc(a.date, b.date)

\* The orders the string cache can have given the names of t.
NameRanks(t) ==
    LET names == UniqueIds(t) \ {Null}
    IN  {f \in [names -> 1..Cardinality(names)] : \A x, y \in names : f[x] = f[y] => x = y}

\* df_sorted: every result the sort can give.
SortedByPersonDate(t) ==
    {s \in Reorderings(t) :
        \E f \in NameRanks(t) :
            \A i \in 1..(Len(s) - 1) : PersonDateOrder(s[i], s[i + 1], f)}

\* fill_null(strategy="forward") without .over("personName"): the value of
\* the nearest row at or above i that is not null, whoever it belongs to.
ForwardFill_Unpartitioned(t, f, i) ==
    LET src == {k \in 1..i : ~IsNull(t[k][f])}
    IN  IF src = {} THEN Null
        ELSE t[CHOOSE k \in src : \A j \in src : j <= k][f]

\* fill_null(strategy="forward").over("personName") at position i: the value
\* of the nearest row at or above i of the same person that is not null.
ForwardFill(t, f, i) ==
    LET src == {k \in 1..i : t[k].personName = t[i].personName /\ ~IsNull(t[k][f])}
    IN  IF src = {} THEN Null
        ELSE t[CHOOSE k \in src : \A j \in src : j <= k][f]

\* fill_null(strategy="backward").over("personName") at position i.
BackwardFill(t, f, i) ==
    LET src == {k \in i..Len(t) : t[k].personName = t[i].personName /\ ~IsNull(t[k][f])}
    IN  IF src = {} THEN Null
        ELSE t[CHOOSE k \in src : \A j \in src : k <= j][f]

\* apply_forward_backward_fill with the two fills in the other order.
apply_forward_backward_fill_BackwardFirst(t, f) ==
    LET bwd == [i \in 1..Len(t) |-> [t[i] EXCEPT ![f] = BackwardFill(t, f, i)]]
    IN  [i \in 1..Len(t) |-> [bwd[i] EXCEPT ![f] = ForwardFill(bwd, f, i)]]

\* apply_forward_backward_fill without the backward fill.
apply_forward_backward_fill_ForwardOnly(t, f) ==
    [i \in 1..Len(t) |-> [t[i] EXCEPT ![f] = ForwardFill(t, f, i)]]

\* Forward fill into <field>_tmp, then backward fill of what is still null.
apply_forward_backward_fill(t, f) ==
    LET fwd == [i \in 1..Len(t) |-> [t[i] EXCEPT ![f] = ForwardFill(t, f, i)]]
    IN  [i \in 1..Len(t) |-> [fwd[i] EXCEPT ![f] = BackwardFill(fwd, f, i)]]

\* The fill applied to each of the fields in turn.
RECURSIVE FillAll(_, _)
FillAll(t, fields) ==
    IF fields = {} THEN t
    ELSE LET f == CHOOSE x \in fields : TRUE
         IN  FillAll(apply_forward_backward_fill(t, f), fields \ {f})

\* The tables the call can return (fields is left None by every caller).
repair_second_order_fields(t, pf) ==
    LET relevant == IF FilterGiven(pf) THEN RelevantData(t, pf) ELSE t
        df_clean == clean_second_order_empty_strings(relevant)
        fields   == ExistingSlowFields(relevant)
    IN  IF fields = {} THEN {t}
        ELSE {IF FilterGiven(pf) THEN OtherData(t, pf) \o FillAll(s, fields)
              ELSE FillAll(s, fields) :
                s \in SortedByPersonDate(df_clean)}

(***************************************************************************)
(* Casts to text                                                           *)
(***************************************************************************)
\* The character of one decimal digit.
DigitChar(n) ==
    CASE n = 0 -> "0" [] n = 1 -> "1" [] n = 2 -> "2" [] n = 3 -> "3"
      [] n = 4 -> "4" [] n = 5 -> "5" [] n = 6 -> "6" [] n = 7 -> "7"
      [] n = 8 -> "8" [] OTHER -> "9"

\* The decimal digits of a natural number.
RECURSIVE NatToStr(_)
NatToStr(n) ==
    IF n < 10 THEN <<DigitChar(n)>>
    ELSE NatToStr(n \div 10) \o <<DigitChar(n % 10)>>

\* The digits of an integer, with its sign.
IntToStr(n) == IF n < 0 THEN <<"-">> \o NatToStr(0 - n) ELSE NatToStr(n)

\* k zeros.
Zeros(k) == [i \in 1..k |-> "0"]

\* Date -> Utf8 (ISO format); day d of the model is the d-th of January 2024.
DateToStr(c) ==
    IF IsNull(c) THEN Null
    ELSE Some(<<"2", "0", "2", "4", "-", "0", "1", "-">>
              \o <<DigitChar(Val(c) \div 10), DigitChar(Val(c) % 10)>>)

\* Decimal(scale) -> Utf8: the integer part, the point and scale decimals.
DecimalToStr(c, scale) ==
    IF IsNull(c) THEN Null ELSE Some(IntToStr(Val(c)) \o <<".">> \o Zeros(scale))

\* Boolean -> Utf8
BoolToStr(c) ==
    IF IsNull(c) THEN Null
    ELSE IF Val(c) THEN Some(<<"t", "r", "u", "e">>)
         ELSE Some(<<"f", "a", "l", "s", "e">>)

\* Expr.fill_null("")
FillNullEmpty(c) == IF IsNull(c) THEN Some(<<>>) ELSE c

\* pl.concat_str(parts, separator="|"): null as soon as one part is null.
RECURSIVE JoinBar(_)
JoinBar(parts) ==
    IF Len(parts) = 1 THEN Val(parts[1])
    ELSE Val(parts[1]) \o <<"|">> \o JoinBar(Tail(parts))

concat_str(parts) ==
    IF \E i \in 1..Len(parts) : IsNull(parts[i]) THEN Null ELSE Some(JoinBar(parts))

(***************************************************************************)
(* 3rd order: deduplication                                                *)
(***************************************************************************)
\* Scales of the Decimal columns cast into the assets key.
ExchangeRateScale == 8

ExerciseOptionPriceScale == 11

\* The pre-step with "or" for "and": a billionaires row is removed when
\* either of personName and lastName is null.
clean_and_prepare_for_deduplication_EitherNull(t, dtype) ==
    IF dtype = "billionaires"
    THEN SelectSeq(t, LAMBDA r : ~(IsNull(r.personName) \/ IsNull(r.lastName)))
    ELSE IF dtype = "assets"
         THEN SelectSeq(t, LAMBDA r : ~IsNull(r.personName))
         ELSE t

\* The pre-step: rows without the minimal identification are removed.
clean_and_prepare_for_deduplication(t, dtype) ==
    IF dtype = "billionaires"
    THEN SelectSeq(t, LAMBDA r : ~(IsNull(r.personName) /\ IsNull(r.lastName)))
    ELSE IF dtype = "assets"
         THEN SelectSeq(t, LAMBDA r : ~IsNull(r.personName))
         ELSE t

\* dedup_key of a billionaires row.
BillionairesKey(r) ==
    concat_str(<<DateToStr(r.date), FillNullEmpty(r.personName)>>)

\* dedup_key of an assets row.
AssetsKey(r) ==
    concat_str(<<DateToStr(r.date),
                 FillNullEmpty(r.personName),
                 FillNullEmpty(r.ticker),
                 FillNullEmpty(r.companyName),
                 FillNullEmpty(r.currencyCode),
                 FillNullEmpty(r.exchange),
                 FillNullEmpty(BoolToStr(r.interactive)),
                 FillNullEmpty(DecimalToStr(r.exchangeRate, ExchangeRateScale)),
                 FillNullEmpty(DecimalToStr(r.exerciseOptionPrice,
                                            ExerciseOptionPriceScale))>>)

\* The measure sorted as it is, nulls first, without replacing null by 0.
ForSort_NullsFirst(c) == IF IsNull(c) THEN 1000000 ELSE Val(c)

\* finalWorth_for_sort / numberOfShares_for_sort: null counts as 0.
ForSort(c) == IF IsNull(c) THEN 0 ELSE Val(c)

\* The elements of a finite set of integers, ascending.
RECURSIVE Ascending(_)
Ascending(S) ==
    IF S = {} THEN <<>>
    ELSE LET m == CHOOSE x \in S : \A y \in S : x <= y
         IN  <<m>> \o Ascending(S \ {m})

\* sort by [dedup_key, measure descending], then unique(subset=dedup_key,
\* keep="first"), on a table whose row i has the key keys[i] and the measure
\* measures[i].  The first row of a key in the sorted table is a row of that
\* key with the largest measure; which one, among equals, the sort does not
\* say.  Null keys are one group.  unique() is not asked to maintain the
\* order, so the kept rows come out in any order.
SortAndKeepFirst(t, keys, measures) ==
    LET ks       == {keys[i] : i \in 1..Len(t)}
        group(k) == {i \in 1..Len(t) : keys[i] = k}
        first(k) == {i \in group(k) : \A j \in group(k) : measures[j] <= measures[i]}
        picks    == {c \in [ks -> 1..Len(t)] : \A k \in ks : c[k] \in first(k)}
    IN  UNION {Reorderings([n \in 1..Cardinality(ks) |->
                                t[Ascending({c[k] : k \in ks})[n]]]) :
                  c \in picks}

\* The tables deduplicate_billionaires can return.
deduplicate_billionaires(t) ==
    SortAndKeepFirst(t, [i \in 1..Len(t) |-> BillionairesKey(t[i])],
                        [i \in 1..Len(t) |-> ForSort(t[i].finalWorth)])

\* The tables deduplicate_assets can return.
deduplicate_assets(t) ==
    SortAndKeepFirst(t, [i \in 1..Len(t) |-> AssetsKey(t[i])],
                        [i \in 1..Len(t) |-> ForSort(t[i].numberOfShares)])

\* The tables repair_deduplication can return.
repair_deduplication(t, dtype) ==
    IF dtype = "billionaires"
    THEN deduplicate_billionaires(clean_and_prepare_for_deduplication(t, dtype))
    ELSE IF dtype = "assets"
         THEN deduplicate_assets(clean_and_prepare_for_deduplication(t, dtype))
         ELSE {t}

(***************************************************************************)
(* Input tables                                                            *)
(***************************************************************************)
\* Text values of the inputs.
TxtA == <<"A">>

TxtB == <<"B">>

TxtSmith == <<"S", "m", "i", "t", "h">>

TxtSmithe == <<"S", "m", "i", "t", "h", "e">>

TxtMiami == <<"M", "i", "a", "m", "i">>

\* A billionaires row with the given cells, null elsewhere.
BRow(date, personName, lastName, city, finalWorth) ==
    [NullRow("billionaires") EXCEPT
        !.date = date, !.personName = personName, !.lastName = lastName,
        !.city = city, !.finalWorth = finalWorth]

\* An assets row with the given cells, null elsewhere.
ARow(date, personName, ticker, numberOfShares) ==
    [NullRow("assets") EXCEPT
        !.date = date, !.personName = personName, !.ticker = ticker,
        !.numberOfShares = numberOfShares]

TxtParis == <<"P", "a", "r", "i", "s">>

\* "  unknown_42  ", the example of the specification.
TxtUnknown42 == <<" ", " ">> \o UnknownWord \o <<"_", "4", "2", " ", " ">>

\* Rows with dirty text cells: surrounding whitespace, empty and blank text,
\* the unknown markers in several spellings, and text that only contains one.
TextRows ==
    {BRow(Some(1), Some(<<" ", "A", "\t">>), Some(TxtSmith), Null, Some(5)),
     BRow(Some(1), Some(TxtA), Some(<<>>), Some(<<" ">>), Some(5)),
     BRow(Some(1), Some(UnknownWord), Some(TxtUnknown42),
          Some(UnknownWord \o <<" ", "A">>), Some(5)),
     BRow(Some(2), Some(TxtA), Some(<<"U", "N", "K", "n", "o", "w", "n", "_", "-", "7">>),
          Some(UnknownWord \o <<"_">>), Null),
     BRow(Some(2), Null, Some(TxtSmith \o <<"\n">>), Some(TxtMiami), Some(7)),
     BRow(Some(2), Some(TxtA), Some(TxtSmith), Some(TxtMiami), Some(7))}

\* Rows of one person whose static identity fields differ over time, with a
\* tie on the most recent date, empty text, and a row without a name.
IdentityRows ==
    {BRow(Some(1), Some(TxtA), Some(TxtSmith), Null, Null),
     BRow(Some(2), Some(TxtA), Some(<<>>), Null, Null),
     BRow(Some(3), Some(TxtA), Some(TxtSmithe), Null, Null),
     [BRow(Some(3), Some(TxtA), Null, Null, Null) EXCEPT
        !.birthDate = Some(9), !.gender = Some(<<"F">>)],
     [BRow(Some(1), Some(TxtB), Some(TxtSmith), Null, Null) EXCEPT
        !.gender = Some(<<"M">>)],
     BRow(Some(1), Null, Some(TxtSmith), Null, Null)}

\* Rows of persons whose slowly-changing field has leading, interior and
\* trailing gaps (one of them nearer to the next value than to the last),
\* empty text, rows without a name and a row without a date.
FillRows ==
    {BRow(Some(1), Some(TxtA), Null, Some(TxtMiami), Null),
     BRow(Some(1), Some(TxtA), Null, Null, Null),
     BRow(Some(2), Some(TxtA), Null, Null, Null),
     [BRow(Some(3), Some(TxtA), Null, Some(TxtParis), Null) EXCEPT
        !.source = Some(<<"X">>)],
     BRow(Some(2), Some(TxtB), Null, Some(<<>>), Null),
     BRow(Some(2), Null, Null, Some(TxtMiami), Null),
     BRow(Some(1), Null, Null, Null, Null),
     BRow(Null, Some(TxtA), Null, Null, Null),
     BRow(Some(3), Some(TxtA), Null, Null, Null),
     BRow(Some(4), Some(TxtA), Null, Some(TxtParis), Null)}

\* Rows that differ in the parts of the dedup key, in the identification
\* the pre-step asks for and in the tie-break measure.
DedupRows ==
    {BRow(Some(1), Some(TxtA), Null, Null, Some(5)),
     BRow(Some(1), Some(TxtA), Null, Null, Some(7)),
     BRow(Some(1), Some(TxtA), Some(TxtSmith), Null, Null),
     BRow(Some(2), Some(TxtA), Null, Null, Some(5)),
     BRow(Some(1), Some(TxtB), Null, Null, Some(5)),
     BRow(Null, Some(TxtA), Null, Null, Some(5)),
     BRow(Null, Some(TxtB), Null, Null, Some(7)),
     BRow(Some(1), Null, Some(TxtSmith), Null, Some(5)),
     BRow(Some(1), Null, Null, Null, Some(7))}

\* Asset rows that differ in the parts of the dedup key and in the measure.
AssetRows ==
    {ARow(Some(1), Some(TxtA), Some(<<"T">>), Some(5)),
     ARow(Some(1), Some(TxtA), Some(<<"T">>), Some(7)),
     ARow(Some(1), Some(TxtA), Some(<<"V">>), Null),
     ARow(Null, Some(TxtA), Some(<<"T">>), Some(5)),
     ARow(Null, Some(TxtA), Some(<<"V">>), Some(5)),
     ARow(Some(1), Null, Some(<<"T">>), Some(5))}

\* The tables of at most MaxRows rows over a set of rows.
TablesOver(rows) == UNION {[1..n -> rows] : n \in 0..MaxRows}

(***************************************************************************)
(* Calls of the single repair orders                                       *)
(***************************************************************************)
\* No file exists; no session is open.
NoFiles == <<>>

NoSession == <<>>

\* The filters a caller passes: None, the empty list, lists of names.
Filters == {Null, Some({}), Some({TxtA}), Some({TxtB})}

\* A call is made on a fresh table, or repeated on its own result.
CanCall(f) == pc = "idle" \/ (pc = "once" /\ op = f)

Returned == IF pc = "idle" THEN "once" ELSE "twice"

Return(f, out, pf) ==
    /\ prev' = df
    /\ df' = out
    /\ op' = f
    /\ people_filter' = pf
    /\ pc' = Returned
    /\ UNCHANGED <<dataset_type, cfg, world>>

Raise(f, pf) ==
    /\ prev' = df
    /\ op' = f
    /\ people_filter' = pf
    /\ pc' = "raised"
    /\ UNCHANGED <<dataset_type, df, cfg, world>>

\* clean_whitespace_and_unknowns(df)
Call0th ==
    /\ CanCall("0th")
    /\ Return("0th", clean_whitespace_and_unknowns(df), Null)

\* repair_identity_consistency(df, people_filter=pf)
Call1st ==
    /\ CanCall("1st")
    /\ dataset_type = "billionaires"
    /\ \E pf \in Filters :
        /\ pc = "once" => (pf = Null /\ people_filter = Null)
        /\ IF IdentityRaises(df, pf) THEN Raise("1st", pf)
           ELSE \E out \in repair_identity_consistency(df, pf) : Return("1st", out, pf)

\* repair_second_order_fields(df, people_filter=pf)
Call2nd ==
    /\ CanCall("2nd")
    /\ dataset_type = "billionaires"
    /\ \E pf \in Filters :
        /\ pc = "once" => (pf = Null /\ people_filter = Null)
        /\ \E out \in repair_second_order_fields(df, pf) : Return("2nd", out, pf)

\* repair_deduplication(df, dataset_type)
Call3rd ==
    /\ CanCall("3rd")
    /\ \E out \in repair_deduplication(df, dataset_type) : Return("3rd", out, Null)

\* clean_and_prepare_for_deduplication(df, dataset_type)
CallPrepare ==
    /\ CanCall("prepare")
    /\ Return("prepare", clean_and_prepare_for_deduplication(df, dataset_type), Null)

DefaultCfg == [apply_0th |-> TRUE, apply_1st |-> TRUE, apply_2nd |-> TRUE, apply_3rd |-> TRUE]

InitWith(dtype, t) ==
    /\ dataset_type = dtype
    /\ prev = t
    /\ df = t
    /\ people_filter = Null
    /\ cfg = DefaultCfg
    /\ op = "none"
    /\ pc = "idle"
    /\ disk = NoFiles
    /\ net = NoSession
    /\ ret = Null

Init ==
    \/ \E rows \in {TextRows, IdentityRows, FillRows, DedupRows} :
            \E t \in TablesOver(rows) : InitWith("billionaires", t)
    \/ \E t \in TablesOver(AssetRows) : InitWith("assets", t)

Next == Call0th \/ Call1st \/ Call2nd \/ Call3rd \/ CallPrepare

Spec == Init /\ [][Next]_vars

(***************************************************************************)
(* The integrated pipeline: repair_all_orders                              *)
(***************************************************************************)
\* Rows that need every repair order: dirty text, a drifting last name, a
\* gap in the city, two rows for one person and date, a row without a name.
PipelineRows ==
    {BRow(Some(1), Some(<<" ", "A", "\t">>), Some(TxtSmith), Some(TxtMiami), Some(5)),
     BRow(Some(1), Some(TxtA), Some(<<>>), Null, Some(7)),
     BRow(Some(2), Some(TxtA), Some(TxtSmithe), Some(UnknownWord), Some(5)),
     BRow(Null, Some(TxtB), Null, Some(<<" ">>), Null),
     BRow(Some(1), Null, Some(TxtSmith), Some(TxtMiami), Some(7))}

\* Asset rows with dirty text, two rows for one holding and date, and a row
\* without a name.
PipelineAssetRows ==
    {ARow(Some(1), Some(TxtA), Some(<<"T">>), Some(5)),
     ARow(Some(1), Some(<<" ", "A", "\t">>), Some(<<"T">>), Some(7)),
     ARow(Some(1), Null, Some(UnknownWord), Null)}

\* The settings of apply_0th .. apply_3rd.
Configs ==
    [apply_0th : BOOLEAN, apply_1st : BOOLEAN, apply_2nd : BOOLEAN, apply_3rd : BOOLEAN]

\* A stage hands its result to the next one.
Advance(f, out, next) ==
    /\ df' = out
    /\ op' = f
    /\ pc' = next
    /\ UNCHANGED <<dataset_type, prev, people_filter, cfg, world>>

\* A stage that is switched off or does not apply leaves result alone.
Skip(next) ==
    /\ pc' = next
    /\ UNCHANGED <<dataset_type, prev, df, people_filter, cfg, op, world>>

\* An exception of a stage leaves repair_all_orders without a result.
Abort ==
    /\ pc' = "raised"
    /\ UNCHANGED <<dataset_type, prev, df, people_filter, cfg, op, world>>

\* if apply_0th: result = clean_whitespace_and_unknowns(result, dataset_type)
Stage0th ==
    /\ pc = "stage0"
    /\ IF cfg.apply_0th
       THEN Advance("0th", clean_whitespace_and_unknowns(df), "stage1")
       ELSE Skip("stage1")

\* The 1st stage called without the filter.
Stage1st_Unfiltered ==
    /\ pc = "stage1"
    /\ IF cfg.apply_1st /\ dataset_type = "billionaires"
       THEN IF IdentityRaises(df, Null) THEN Abort
            ELSE \E out \in repair_identity_consistency(df, Null) :
                    Advance("1st", out, "stage2")
       ELSE Skip("stage2")

\* if apply_1st and dataset_type == "billionaires":
\*     result = repair_identity_consistency(result, people_filter=people_filter)
Stage1st ==
    /\ pc = "stage1"
    /\ IF cfg.apply_1st /\ dataset_type = "billionaires"
       THEN IF IdentityRaises(df, people_filter) THEN Abort
            ELSE \E out \in repair_identity_consistency(df, people_filter) :
                    Advance("1st", out, "stage2")
       ELSE Skip("stage2")

\* if apply_2nd and dataset_type == "billionaires":
\*     result = repair_second_order_fields(result, people_filter=people_filter)
Stage2nd ==
    /\ pc = "stage2"
    /\ IF cfg.apply_2nd /\ dataset_type = "billionaires"
       THEN \E out \in repair_second_order_fields(df, people_filter) :
                Advance("2nd", out, "stage3")
       ELSE Skip("stage3")

\* if apply_3rd: result = repair_deduplication(result, dataset_type)
Stage3rd ==
    /\ pc = "stage3"
    /\ IF cfg.apply_3rd
       THEN \E out \in repair_deduplication(df, dataset_type) :
                Advance("3rd", out, "done")
       ELSE Skip("done")

\* repair_all_orders(df, dataset_type, people_filter, apply_0th, ...) is
\* entered: result = df.
InitPipeline ==
    /\ \/ dataset_type = "billionaires" /\ prev \in TablesOver(PipelineRows)
       \/ dataset_type = "assets" /\ prev \in TablesOver(PipelineAssetRows)
    /\ df = prev
    /\ people_filter \in Filters
    /\ cfg \in Configs
    /\ op = "none"
    /\ pc = "stage0"
    /\ disk = NoFiles
    /\ net = NoSession
    /\ ret = Null

NextPipeline == Stage0th \/ Stage1st \/ Stage2nd \/ Stage3rd

SpecPipeline == InitPipeline /\ [][NextPipeline]_vars

(***************************************************************************)
(* Vocabulary of the properties                                            *)
(***************************************************************************)
\* The most recent call was f and it returned; prev is what it was given and
\* df what it returned.
HasReturned(f) == op = f /\ pc \in {"once", "twice"}

\* How many times the row r occurs in the table t.
Count(t, r) == Cardinality({i \in 1..Len(t) : t[i] = r})

\* The rows of t.
RowsOf(t) == {t[i] : i \in 1..Len(t)}

\* t and u hold the same rows, each as many times.
SameRows(t, u) == \A r \in RowsOf(t) \cup RowsOf(u) : Count(t, r) = Count(u, r)

\* Every row of t is a row of u, no more often than in u.
RowsAmong(t, u) == \A r \in RowsOf(t) : Count(t, r) <= Count(u, r)

\* A text cell with missing read as the empty text.
TextOrEmpty(c) == IF IsNull(c) THEN <<>> ELSE Val(c)

\* The natural key of a row as the data model states it, component by
\* component (missing text read as empty text).
NaturalKey(r, dtype) ==
    IF dtype = "assets"
    THEN <<r.date, TextOrEmpty(r.personName), TextOrEmpty(r.ticker),
           TextOrEmpty(r.companyName), TextOrEmpty(r.currencyCode),
           TextOrEmpty(r.exchange), r.interactive, r.exchangeRate,
           r.exerciseOptionPrice>>
    ELSE <<r.date, TextOrEmpty(r.personName)>>

\* The row has the minimal identification the data model asks for.
Identifiable(r, dtype) ==
    IF dtype = "assets" THEN ~IsNull(r.personName)
    ELSE ~IsNull(r.personName) \/ ~IsNull(r.lastName)

\* The tie-break measure of a row, missing counted as zero.
TieBreak(r, dtype) ==
    LET c == IF dtype = "assets" THEN r.numberOfShares ELSE r.finalWorth
    IN  IF IsNull(c) THEN 0 ELSE Val(c)

\* The identifiable rows of t with the natural key k.
KeyGroup(t, k, dtype) ==
    {i \in 1..Len(t) : Identifiable(t[i], dtype) /\ NaturalKey(t[i], dtype) = k}

(***************************************************************************)
(* Properties                                                              *)
(***************************************************************************)
\* C1: after the 3rd order repair, every natural key of an identifiable input
\* row has exactly one row in the output, and every output row is an input
\* row, unchanged.
C1_OneRowPerKey ==
    HasReturned("3rd") =>
        /\ RowsAmong(df, prev)
        /\ \A i \in 1..Len(prev) :
            Identifiable(prev[i], dataset_type) =>
                Cardinality(KeyGroup(df, NaturalKey(prev[i], dataset_type),
                                     dataset_type)) = 1

RowsOfPerson(t, p) == {i \in 1..Len(t) : t[i].personName = p}

\* C3: after the 1st order repair without a filter, all rows of a person
\* carry the same value of each static identity field.
C3_IdentityUniform ==
    (HasReturned("1st") /\ people_filter = Null) =>
        \A i, j \in 1..Len(df) :
            df[i].personName = df[j].personName =>
                \A f \in {"lastName", "birthDate", "gender"} : df[i][f] = df[j][f]

\* C3 happens: the input had a person with two different last names, and
\* the output has every row of that person under one of them.
C3_Witness ==
    /\ HasReturned("1st") /\ people_filter = Null
    /\ \E i, j \in 1..Len(prev) :
        /\ prev[i].personName = prev[j].personName
        /\ ~IsNull(prev[i].lastName) /\ ~IsNull(prev[j].lastName)
        /\ prev[i].lastName # prev[j].lastName
        /\ \A k \in RowsOfPerson(df, prev[i].personName) :
                df[k].lastName = prev[j].lastName

\* C4 as claimed: after the 2nd order repair without a filter, a person with
\* a non-missing value of a slowly-changing field in some input row has no
\* output row where that field is missing.
C4_FillComplete_Claimed ==
    (HasReturned("2nd") /\ people_filter = Null) =>
        \A f \in {"countryOfCitizenship", "city", "state", "source", "industries"} :
            \A i \in 1..Len(prev) :
                ~IsNull(prev[i][f]) =>
                    \A k \in RowsOfPerson(df, prev[i].personName) : ~IsNull(df[k][f])

\* C4 as amended: the same, for a person with a value in some input row that
\* is neither missing nor the empty text.
C4_FillComplete ==
    (HasReturned("2nd") /\ people_filter = Null) =>
        \A f \in {"countryOfCitizenship", "city", "state", "source", "industries"} :
            \A i \in 1..Len(prev) :
                (~IsNull(prev[i][f]) /\ prev[i][f] # Some(<<>>)) =>
                    /\ RowsOfPerson(df, prev[i].personName) # {}
                    /\ \A k \in RowsOfPerson(df, prev[i].personName) :
                            ~IsNull(df[k][f])

\* C4 happens: a person had the field missing in one input row and present
\* in another, and every output row of the person has it.
C4_Witness ==
    /\ HasReturned("2nd") /\ people_filter = Null
    /\ \E i, j \in 1..Len(prev) :
        /\ prev[i].personName = prev[j].personName
        /\ IsNull(prev[i].city)
        /\ ~IsNull(prev[j].city) /\ prev[j].city # Some(<<>>)
        /\ \A k \in RowsOfPerson(df, prev[i].personName) : ~IsNull(df[k].city)

\* The text columns of the two schemas.
TextColumns ==
    {"personName", "lastName", "gender", "countryOfCitizenship", "city", "state",
     "source", "industries", "companyName", "currencyCode", "exchange", "ticker"}

\* The text with its upper-case letters lowered.
LowerText(s) == [i \in 1..Len(s) |-> Lower(s[i])]

\* The whole text is "unknown", or "unknown_" followed by an optional minus
\* and at least one digit, in any letter case.
IsUnknownMarker(s) ==
    LET l == LowerText(s)
        n == Len(UnknownWord)
    IN  \/ l = UnknownWord
        \/ /\ Len(l) > n + 1
           /\ SubSeq(l, 1, n) = UnknownWord
           /\ l[n + 1] = "_"
           /\ LET rest == SubSeq(l, n + 2, Len(l))
                  num  == IF rest[1] = "-" THEN Tail(rest) ELSE rest
              IN  num # <<>> /\ \A i \in 1..Len(num) : num[i] \in Digits

\* C5: after the 0th order repair every text cell is missing, or a non-empty
\* text without leading or trailing whitespace that is no unknown marker.
C5_TextClean ==
    HasReturned("0th") =>
        \A i \in 1..Len(df) :
            \A c \in TextColumns \cap DOMAIN df[i] :
                \/ IsNull(df[i][c])
                \/ LET v == Val(df[i][c])
                   IN  /\ v # <<>>
                       /\ v[1] \notin Whitespace
                       /\ v[Len(v)] \notin Whitespace
                       /\ ~IsUnknownMarker(v)

\* C5 happens: the input held "  unknown_42  " in one cell and text with
\* whitespace around it in another; the first is missing in the output and
\* the second is kept, trimmed.
C5_Witness ==
    /\ HasReturned("0th")
    /\ \E i, j \in 1..Len(prev) :
        /\ prev[i].lastName = Some(TxtUnknown42)
        /\ IsNull(df[i].lastName)
        /\ prev[j].personName = Some(<<" ", "A", "\t">>)
        /\ df[j].personName = Some(TxtA)

C7_Idempotent == pc = "twice" => SameRows(df, prev)

\* C7 happens: the 2nd order repair changed a table and, applied to its
\* result, returned it again.
C7_Witness ==
    /\ pc = "twice" /\ op = "2nd"
    /\ \E i \in 1..Len(df) : ~IsNull(df[i].city)
    /\ \E i, j \in 1..Len(df) : df[i].personName # df[j].personName

\* C10: with a filter, the 1st and 2nd order repairs return every input row
\* of a person outside the filter (a missing personName included) unchanged,
\* and as many rows as they were given.
C10_FilterFrame ==
    (pc = "once" /\ op \in {"1st", "2nd"} /\ FilterGiven(people_filter)) =>
        /\ Len(df) = Len(prev)
        /\ \A i \in 1..Len(prev) :
            (IsNull(prev[i].personName)
                \/ Val(prev[i].personName) \notin Val(people_filter)) =>
                    Count(df, prev[i]) >= Count(prev, prev[i])

\* A text cell is missing, or non-empty text that is no unknown marker.
NoEmptyNoMarker(c) == IsNull(c) \/ (Val(c) # <<>> /\ ~IsUnknownMarker(Val(c)))

\* C8: after a full pass over a billionaires table without a filter, no text
\* cell is empty or an unknown marker, the static identity fields are the
\* same in all rows of a person, a slowly-changing field is missing in all
\* rows of a person or in none, and no two rows share date and personName.
C8_AllInvariants ==
    (pc = "done" /\ dataset_type = "billionaires" /\ people_filter = Null
        /\ cfg = DefaultCfg) =>
        /\ \A i \in 1..Len(df) :
            \A c \in TextColumns \cap DOMAIN df[i] : NoEmptyNoMarker(df[i][c])
        /\ \A i, j \in 1..Len(df) :
            df[i].personName = df[j].personName =>
                /\ \A f \in {"lastName", "birthDate", "gender"} : df[i][f] = df[j][f]
                /\ \A f \in {"countryOfCitizenship", "city", "state", "source",
                               "industries"} :
                        IsNull(df[i][f]) <=> IsNull(df[j][f])
        /\ \A i, j \in 1..Len(df) :
            (df[i].date = df[j].date /\ df[i].personName = df[j].personName) => i = j

\* C8 happens: the input had a dirty name, two last names for the person, a
\* gap in the city and two rows for the person on one date; the full pass
\* ended with one row for that date.
C8_Witness ==
    /\ pc = "done" /\ dataset_type = "billionaires" /\ people_filter = Null
    /\ cfg = DefaultCfg
    /\ \E i, j, k \in 1..Len(prev) :
        /\ prev[i].personName = Some(<<" ", "A", "\t">>) /\ prev[i].date = Some(1)
        /\ prev[j].personName = Some(TxtA) /\ prev[j].date = Some(1)
        /\ IsNull(prev[j].city)
        /\ prev[k].lastName = Some(TxtSmithe)
    /\ Len(df) = 2
    /\ \A i \in 1..Len(df) :
        df[i].personName = Some(TxtA) /\ df[i].lastName = Some(TxtSmithe)

\* The results of one stage of the composition: the stage's own results if
\* it is enabled and applies, none if it raises, the table itself otherwise.
Composed0th(t) == IF cfg.apply_0th THEN {clean_whitespace_and_unknowns(t)} ELSE {t}

Composed1st(t) ==
    IF cfg.apply_1st /\ dataset_type = "billionaires"
    THEN IF IdentityRaises(t, people_filter) THEN {}
         ELSE repair_identity_consistency(t, people_filter)
    ELSE {t}

Composed2nd(t) ==
    IF cfg.apply_2nd /\ dataset_type = "billionaires"
    THEN repair_second_order_fields(t, people_filter)
    ELSE {t}

Composed3rd(t) == IF cfg.apply_3rd THEN repair_deduplication(t, dataset_type) ELSE {t}

\* C9: what repair_all_orders returns is a result of the enabled stages
\* composed in the order 0th, 1st, 2nd, 3rd: a disabled stage is the
\* identity, the 1st and 2nd are the identity on assets, only the 1st and
\* 2nd are given the filter, the 0th and 3rd work on the whole table.
C9_Composition ==
    pc = "done" =>
        df \in UNION {UNION {UNION {Composed3rd(c) : c \in Composed2nd(b)} :
                                b \in Composed1st(a)} :
                         a \in Composed0th(prev)}

\* C9 happens: a run with a filter and the 1st order switched off; the
\* name outside the filter was cleaned by the 0th order and its duplicate
\* removed by the 3rd, the last name was left as it was.
C9_Witness ==
    /\ pc = "done" /\ dataset_type = "billionaires"
    /\ people_filter = Some({TxtB})
    /\ cfg = [DefaultCfg EXCEPT !.apply_1st = FALSE]
    /\ \E i, j \in 1..Len(prev) :
        /\ prev[i].personName = Some(<<" ", "A", "\t">>) /\ prev[i].date = Some(1)
        /\ prev[j].personName = Some(TxtA) /\ prev[j].date = Some(1)
    /\ Len(df) = 1
    /\ df[1].personName = Some(TxtA)

(***************************************************************************)
(* Loading and saving (src/src/data_lib.py)                                *)
(*                                                                         *)
(* Where the columns of a table matter, a table is a frame: its columns    *)
(* in order, the dtype of each, and its rows.                              *)
(***************************************************************************)
\* list(get_billionaires_schema().keys())
BillionairesColumns ==
    <<"date", "personName", "lastName", "birthDate", "gender",
      "countryOfCitizenship", "city", "state", "source", "industries",
      "finalWorth", "estWorthPrev", "archivedWorth", "privateAssetsWorth">>

\* list(get_assets_schema().keys())
AssetsColumns ==
    <<"date", "personName", "companyName", "currencyCode", "currentPrice",
      "exchange", "exchangeRate", "exerciseOptionPrice", "interactive",
      "numberOfShares", "sharePrice", "ticker">>

SchemaColumns(dtype) ==
    IF dtype = "assets" THEN AssetsColumns ELSE BillionairesColumns

\* The else branch of every dispatch on dataset_type: raise ValueError.
UnknownDatasetType(dtype) == dtype \notin {"billionaires", "assets"}

\* df.columns as a set.
ColumnSet(frame) == {frame.columns[i] : i \in DOMAIN frame.columns}

\* pl.DataFrame(schema=schema): the frame of a dataset type with the given
\* rows.
create_empty_dataset(dtype) ==
    [columns |-> SchemaColumns(dtype), dtypes |-> SchemaOf(dtype), rows |-> <<>>]

get_sort_columns(dtype) ==
    IF dtype = "billionaires" THEN <<"personName", "date">>
    ELSE <<"personName", "companyName", "interactive", "date">>

\* pl.col(col_name).cast(expected_dtype): the frames of the model differ
\* from the schema only by Utf8 in place of Categorical, and that cast keeps
\* the text of every cell.
Cast(c, from, to) == c

\* The enforce_schema block without the final select: missing columns are
\* added, wrong dtypes are cast, extra columns and the column order stay.
EnforceSchema_NoSelect(frame, schema, columns) ==
    LET missing == SelectSeq(columns, LAMBDA c : c \notin ColumnSet(frame))
        extra   == ColumnSet(frame) \ DOMAIN schema
        all     == ColumnSet(frame) \cup DOMAIN schema
    IN  [columns |-> frame.columns \o missing,
         dtypes  |-> [c \in all |-> IF c \in extra THEN frame.dtypes[c] ELSE schema[c]],
         rows    |-> [i \in 1..Len(frame.rows) |->
                        [c \in all |->
                            IF c \notin ColumnSet(frame) THEN Null
                            ELSE IF c \in extra THEN frame.rows[i][c]
                            ELSE Cast(frame.rows[i][c], frame.dtypes[c], schema[c])]]]

\* The enforce_schema block of the load and save functions: every schema
\* column exists with the schema's dtype (added as null, or cast), and the
\* frame is cut to the schema's columns in the schema's order.
EnforceSchema(frame, schema, columns) ==
    [columns |-> columns,
     dtypes  |-> schema,
     rows    |-> [i \in 1..Len(frame.rows) |->
                    [c \in DOMAIN schema |->
                        IF c \in ColumnSet(frame)
                        THEN Cast(frame.rows[i][c], frame.dtypes[c], schema[c])
                        ELSE Null]]]

\* The texts of the Categorical columns cols in the rows, and the orders the
\* string cache can have given them.
CacheRanks(rows, cols) ==
    LET cells == {rows[i][c] : i \in 1..Len(rows), c \in cols} \ {Null}
    IN  {f \in [cells -> 1..Cardinality(cells)] :
            \A x, y \in cells : f[x] = f[y] => x = y}

\* Where a cell that is not null sorts in its column.
CellRank(c, type, cache) ==
    IF type = "Categorical" THEN cache[c]
    ELSE IF type = "Boolean" THEN (IF Val(c) THEN 1 ELSE 0)
    ELSE Val(c)

\* Ascending order of one column, nulls first.
CellBefore(x, y, type, cache) ==
    \/ IsNull(x) /\ ~IsNull(y)
    \/ /\ ~IsNull(x) /\ ~IsNull(y)
       /\ CellRank(x, type, cache) < CellRank(y, type, cache)

\* Row a does not sort after row b by the columns by[k..].
RECURSIVE NotAfter(_, _, _, _, _, _)
NotAfter(a, b, by, k, dtypes, cache) ==
    \/ k > Len(by)
    \/ CellBefore(a[by[k]], b[by[k]], dtypes[by[k]], cache)
    \/ a[by[k]] = b[by[k]] /\ NotAfter(a, b, by, k + 1, dtypes, cache)

\* df.sort(sort_columns): every result the sort can give.
SortedFrames(frame, by) ==
    LET cats == {c \in {by[k] : k \in DOMAIN by} : frame.dtypes[c] = "Categorical"}
    IN  {[frame EXCEPT !.rows = s] :
            s \in {r \in Reorderings(frame.rows) :
                    \E cache \in CacheRanks(frame.rows, cats) :
                        \A i \in 1..(Len(r) - 1) :
                            NotAfter(r[i], r[i + 1], by, 1, frame.dtypes, cache)}}

\* save_billionaires_data that writes the frame as it was handed in.
FramesToWrite_AsGiven(frame, dtype) == {frame}

\* What save_billionaires_data / save_assets_data write for a frame, called
\* with the default sort_data and enforce_schema as save_dataset's callers
\* do: the schema is enforced, then the rows are sorted.
FramesToWrite(frame, dtype) ==
    SortedFrames(EnforceSchema(frame, SchemaOf(dtype), SchemaColumns(dtype)),
                 get_sort_columns(dtype))

\* load_billionaires_data / load_assets_data on the content of a file, with
\* the default enforce_schema.
LoadedFrame(content, dtype) ==
    EnforceSchema(content, SchemaOf(dtype), SchemaColumns(dtype))

\* validate_dataset_schema: the issues found.
ValidationIssues(frame, dtype) ==
    LET expected == SchemaOf(dtype)
    IN  [missing    |-> DOMAIN expected \ ColumnSet(frame),
         unexpected |-> ColumnSet(frame) \ DOMAIN expected,
         mistyped   |-> {c \in DOMAIN expected \cap ColumnSet(frame) :
                            frame.dtypes[c] # expected[c]}]

\* validate_dataset_schema: (len(issues) == 0, issues).
validate_dataset_schema(frame, dtype) ==
    LET issues == ValidationIssues(frame, dtype)
    IN  [valid  |-> issues.missing = {} /\ issues.unexpected = {} /\ issues.mistyped = {},
         issues |-> issues]

(***************************************************************************)
(* repair_all_orders as one call                                           *)
(***************************************************************************)
\* The tables the stages up to the 1st order can hand on, and whether the
\* 1st order raises on one of them.
AfterStage0(t, c) ==
    IF c.apply_0th THEN clean_whitespace_and_unknowns(t) ELSE t

RunsIdentityStages(dtype, enabled) == enabled /\ dtype = "billionaires"

RepairAllOrdersRaises(t, dtype, pf, c) ==
    /\ RunsIdentityStages(dtype, c.apply_1st)
    /\ IdentityRaises(AfterStage0(t, c), pf)

AfterStage1(t, dtype, pf, c) ==
    IF RunsIdentityStages(dtype, c.apply_1st)
    THEN repair_identity_consistency(AfterStage0(t, c), pf)
    ELSE {AfterStage0(t, c)}

AfterStage2(t, dtype, pf, c) ==
    IF RunsIdentityStages(dtype, c.apply_2nd)
    THEN UNION {repair_second_order_fields(u, pf) : u \in AfterStage1(t, dtype, pf, c)}
    ELSE AfterStage1(t, dtype, pf, c)

\* The tables repair_all_orders can return when no stage raises.
repair_all_orders(t, dtype, pf, c) ==
    IF c.apply_3rd
    THEN UNION {repair_deduplication(u, dtype) : u \in AfterStage2(t, dtype, pf, c)}
    ELSE AfterStage2(t, dtype, pf, c)

(***************************************************************************)
(* Calls of the operations that take a dataset type                        *)
(***************************************************************************)
\* The dataset types a caller passes: the two supported ones and another.
DatasetTypes == {"billionaires", "assets", "forbes400"}

\* The one file of these calls.
StorePath == "data.parquet"

\* Rows to store: two persons, two dates, out of order.
StoreRows ==
    {BRow(Some(2), Some(TxtA), Some(TxtSmith), Some(TxtMiami), Some(5)),
     BRow(Some(1), Some(TxtB), Null, Null, Some(7)),
     BRow(Some(1), Some(TxtA), Null, Some(<<" ">>), Null)}

StoreAssetRows ==
    {[ARow(Some(2), Some(TxtA), Some(<<"T">>), Some(5)) EXCEPT
        !.companyName = Some(<<"X">>), !.interactive = Some(TRUE)],
     [ARow(Some(1), Some(TxtA), Some(<<"T">>), Some(7)) EXCEPT
        !.companyName = Some(<<"X">>), !.interactive = Some(FALSE)],
     [ARow(Some(1), Some(TxtB), Null, Null) EXCEPT
        !.companyName = Some(<<"X">>)]}

\* The frame of a dataset type with the given rows.
FrameOf(rows, dtype) == [create_empty_dataset(dtype) EXCEPT !.rows = rows]

\* The frame without one of its columns.
WithoutColumn(frame, col) ==
    [columns |-> SelectSeq(frame.columns, LAMBDA c : c # col),
     dtypes  |-> [c \in ColumnSet(frame) \ {col} |-> frame.dtypes[c]],
     rows    |-> [i \in 1..Len(frame.rows) |->
                    [c \in ColumnSet(frame) \ {col} |-> frame.rows[i][c]]]]

\* The frame with a column the schema does not have, in front.
WithRankColumn(frame) ==
    [columns |-> <<"rank">> \o frame.columns,
     dtypes  |-> [c \in ColumnSet(frame) \cup {"rank"} |->
                    IF c = "rank" THEN "Int64" ELSE frame.dtypes[c]],
     rows    |-> [i \in 1..Len(frame.rows) |->
                    [c \in ColumnSet(frame) \cup {"rank"} |->
                        IF c = "rank" THEN Some(i) ELSE frame.rows[i][c]]]]

\* The frame with personName as plain text.
WithUtf8Name(frame) == [frame EXCEPT !.dtypes.personName = "Utf8"]

\* The shapes in which a table reaches the library: as the schema says, a
\* column short, a column more, a text column not yet Categorical.
Shapes(frame) ==
    {frame, WithoutColumn(frame, "date"), WithRankColumn(frame), WithUtf8Name(frame)}

\* The frames handed to the calls for a dataset type; a caller with an
\* unsupported type holds a table of one of the two shapes.
StoreFrames(dtype) ==
    LET shape == IF dtype = "assets" THEN "assets" ELSE "billionaires"
        rows  == IF dtype = "assets" THEN StoreAssetRows ELSE StoreRows
    IN  UNION {Shapes(FrameOf(t, shape)) : t \in TablesOver(rows)}

\* The repair functions read their columns by name: the calls below hand
\* them frames that have the schema's columns.
HasSchemaColumns(frame) ==
    \/ ColumnSet(frame) = DOMAIN get_billionaires_schema
    \/ ColumnSet(frame) = DOMAIN get_assets_schema

\* The call f ends with an exception: nothing is returned or written.
StoreRaise(f) ==
    /\ op' = f
    /\ pc' = "raised"
    /\ UNCHANGED <<dataset_type, prev, df, people_filter, cfg, world>>

\* The call f returns the table out.
StoreReturnTable(f, out) ==
    /\ op' = f
    /\ pc' = "returned"
    /\ prev' = df
    /\ df' = out
    /\ UNCHANGED <<dataset_type, people_filter, cfg, world>>

\* The call f returns the value v.
StoreReturnValue(f, v) ==
    /\ op' = f
    /\ pc' = "returned"
    /\ ret' = v
    /\ UNCHANGED <<dataset_type, prev, df, people_filter, cfg, disk, net>>

\* save_dataset(df, StorePath, dataset_type)
CallSaveDataset ==
    /\ pc = "idle"
    /\ IF UnknownDatasetType(dataset_type) THEN StoreRaise("save_dataset")
       ELSE \E w \in FramesToWrite(df, dataset_type) :
                /\ disk' = [disk EXCEPT ![StorePath] = Some(w)]
                /\ op' = "save_dataset"
                /\ pc' = "saved"
                /\ prev' = df
                /\ UNCHANGED <<dataset_type, df, people_filter, cfg, net, ret>>

\* df = load_dataset(StorePath, dataset_type), on a file that was there or
\* on the one just saved.
CallLoadDataset ==
    /\ pc \in {"idle", "saved"}
    /\ IF UnknownDatasetType(dataset_type) \/ IsNull(disk[StorePath])
       THEN StoreRaise("load_dataset")
       ELSE /\ df' = LoadedFrame(Val(disk[StorePath]), dataset_type)
            /\ op' = "load_dataset"
            /\ pc' = IF pc = "saved" THEN "reloaded" ELSE "loaded"
            /\ UNCHANGED <<dataset_type, prev, people_filter, cfg, world>>

\* get_sort_columns(dataset_type)
CallGetSortColumns ==
    /\ pc = "idle"
    /\ IF UnknownDatasetType(dataset_type) THEN StoreRaise("get_sort_columns")
       ELSE StoreReturnValue("get_sort_columns", get_sort_columns(dataset_type))

\* df = create_empty_dataset(dataset_type)
CallCreateEmptyDataset ==
    /\ pc = "idle"
    /\ IF UnknownDatasetType(dataset_type) THEN StoreRaise("create_empty_dataset")
       ELSE StoreReturnTable("create_empty_dataset", create_empty_dataset(dataset_type))

\* validate_dataset_schema(df, dataset_type), on any frame or on a loaded one
CallValidateDatasetSchema ==
    /\ pc \in {"idle", "loaded", "reloaded"}
    /\ IF UnknownDatasetType(dataset_type) THEN StoreRaise("validate_dataset_schema")
       ELSE StoreReturnValue("validate_dataset_schema",
                             validate_dataset_schema(df, dataset_type))

\* df = repair_deduplication(df, dataset_type)
CallRepairDeduplication ==
    /\ pc = "idle"
    /\ HasSchemaColumns(df)
    /\ \E out \in repair_deduplication(df.rows, dataset_type) :
            StoreReturnTable("repair_deduplication", [df EXCEPT !.rows = out])

\* df = repair_all_orders(df, dataset_type, None, apply_0th, ..., apply_3rd)
CallRepairAllOrders ==
    /\ pc = "idle"
    /\ HasSchemaColumns(df)
    /\ IF RepairAllOrdersRaises(df.rows, dataset_type, Null, cfg)
       THEN StoreRaise("repair_all_orders")
       ELSE \E out \in repair_all_orders(df.rows, dataset_type, Null, cfg) :
                StoreReturnTable("repair_all_orders", [df EXCEPT !.rows = out])

\* A file written by an earlier run that did not know of the column city.
OldFile == WithoutColumn(FrameOf(<<>>, "billionaires"), "city")

InitStore ==
    /\ dataset_type \in DatasetTypes
    /\ df \in StoreFrames(dataset_type)
    /\ prev = df
    /\ people_filter = Null
    /\ cfg \in {DefaultCfg, [DefaultCfg EXCEPT !.apply_3rd = FALSE]}
    /\ op = "none"
    /\ pc = "idle"
    /\ disk \in [{StorePath} -> {Null, Some(OldFile)}]
    /\ net = NoSession
    /\ ret = Null

NextStore ==
    \/ CallSaveDataset
    \/ CallLoadDataset
    \/ CallGetSortColumns
    \/ CallCreateEmptyDataset
    \/ CallValidateDatasetSchema
    \/ CallRepairDeduplication
    \/ CallRepairAllOrders

SpecStore == InitStore /\ [][NextStore]_vars

(***************************************************************************)
(* Properties of the operations that take a dataset type                   *)
(***************************************************************************)
\* C11: every operation that takes a dataset type ends with an error when
\* the type is neither "billionaires" nor "assets": it returns no table and
\* writes no file.
C11_UnknownTypeRejected ==
    [][UnknownDatasetType(dataset_type) => (pc' = "raised" /\ disk' = disk)]_vars

\* A row as the schema sees it: the schema's columns, missing where the row
\* has none.
Conformed(r, dtype) ==
    [c \in DOMAIN SchemaOf(dtype) |-> IF c \in DOMAIN r THEN r[c] ELSE Null]

\* The sort key of a row as integers, a missing component before all others;
\* names stand in the order rank gives them.
SortKey(r, by, dtypes, rank) ==
    [k \in DOMAIN by |->
        LET c == r[by[k]]
        IN  IF IsNull(c) THEN -1
            ELSE IF dtypes[by[k]] = "Categorical" THEN rank[c]
            ELSE IF dtypes[by[k]] = "Boolean" THEN (IF Val(c) THEN 1 ELSE 0)
            ELSE Val(c)]

\* a <= b for two keys of the same length, component by component.
LexLeq(a, b) ==
    \/ a = b
    \/ \E k \in DOMAIN a :
        /\ a[k] < b[k]
        /\ \A j \in 1..(k - 1) : a[j] = b[j]

\* The rows stand in non-decreasing order of the sort key, for some order
\* of the names.
OrderedBy(rows, by, dtypes) ==
    LET cats  == {c \in {by[k] : k \in DOMAIN by} : dtypes[c] = "Categorical"}
        cells == {rows[i][c] : i \in 1..Len(rows), c \in cats} \ {Null}
    IN  \E rank \in [cells -> 1..Cardinality(cells)] :
            /\ \A x, y \in cells : rank[x] = rank[y] => x = y
            /\ \A i \in 1..(Len(rows) - 1) :
                    LexLeq(SortKey(rows[i], by, dtypes, rank),
                           SortKey(rows[i + 1], by, dtypes, rank))

NumUrls == 3

\* What a URL can answer: a network error or a non-2xx status (both a
\* RequestException), a body that is not JSON, JSON that is not an object
\* (an array, say), an object without records or with an empty record list,
\* an object with records.
ResponseKinds == {"request_error", "bad_json", "not_object", "empty", "records"}

\* datetime.now().strftime("%Y%m%d"); day d of the model is the d-th of
\* January 2024.
StrfDate(d) ==
    <<"2", "0", "2", "4", "0", "1", DigitChar(d \div 10), DigitChar(d % 10)>>

\* The value of a decimal digit; 10 for any other character.
DigitValue(ch) ==
    CASE ch = "0" -> 0 [] ch = "1" -> 1 [] ch = "2" -> 2 [] ch = "3" -> 3
      [] ch = "4" -> 4 [] ch = "5" -> 5 [] ch = "6" -> 6 [] ch = "7" -> 7
      [] ch = "8" -> 8 [] ch = "9" -> 9 [] OTHER -> 10

AllDigits(s) == \A i \in 1..Len(s) : DigitValue(s[i]) < 10

\* The number a string of digits denotes.
RECURSIVE ParseNat(_)
ParseNat(s) ==
    IF Len(s) = 0 THEN 0
    ELSE 10 * ParseNat(SubSeq(s, 1, Len(s) - 1)) + DigitValue(s[Len(s)])

\* str.strptime(pl.Date, "%Y%m%d", strict=False): null when the text is not
\* a date of that format.
StrpDateCompact(s) ==
    IF Len(s) = 8 /\ AllDigits(s) /\ SubSeq(s, 1, 6) = <<"2", "0", "2", "4", "0", "1">>
       /\ ParseNat(SubSeq(s, 7, 8)) \in 1..31
    THEN Some(ParseNat(SubSeq(s, 7, 8)))
    ELSE Null

\* str.strptime(pl.Date, "%Y-%m-%d", strict=False)
StrpDateIso(s) ==
    IF Len(s) = 10 /\ SubSeq(s, 1, 8) = <<"2", "0", "2", "4", "-", "0", "1", "-">>
       /\ AllDigits(SubSeq(s, 9, 10)) /\ ParseNat(SubSeq(s, 9, 10)) \in 1..31
    THEN Some(ParseNat(SubSeq(s, 9, 10)))
    ELSE Null

\* str(record.get(k, "")) if record.get(k) else "": text, empty when the
\* record has no value or an empty one.
RawText(c) == IF IsNull(c) THEN <<>> ELSE Val(c)

\* str(record.get(k, "")) if record.get(k) is not None else "", of a number.
RawNumber(c) == IF IsNull(c) THEN <<>> ELSE IntToStr(Val(c))

\* when(col == "").then(None).otherwise(col).cast(dtype), for a Decimal
\* column: the model's numbers are written without sign or point.
TextToDecimal(s) == IF s = <<>> THEN Null ELSE Some(ParseNat(s))

\* when(col == "").then(None).otherwise(col).cast(pl.Categorical)
TextToCategorical(s) == IF s = <<>> THEN Null ELSE Some(s)

\* The birthDate expression: null for "", else the ISO date (the epoch
\* fallback yields null for the texts of the model).
TextToBirthDate(s) == IF s = <<>> THEN Null ELSE StrpDateIso(s)

\* One row of process_forbes_data followed by apply_schema_transformations
\* for the billionaires frame.
BillionaireOfRecord(record, current_date) ==
    [NullRow("billionaires") EXCEPT
        !.date = StrpDateCompact(current_date),
        !.personName = TextToCategorical(RawText(record.personName)),
        !.lastName = TextToCategorical(RawText(record.lastName)),
        !.birthDate = TextToBirthDate(RawText(record.birthDate)),
        !.city = TextToCategorical(RawText(record.city)),
        !.finalWorth = TextToDecimal(RawNumber(record.finalWorth))]

\* The same for one entry of the record's financialAssets.
AssetOfRecord(record, asset, current_date) ==
    [NullRow("assets") EXCEPT
        !.date = StrpDateCompact(current_date),
        !.personName = TextToCategorical(RawText(record.personName)),
        !.companyName = TextToCategorical(RawText(asset.companyName)),
        !.ticker = TextToCategorical(RawText(asset.ticker)),
        !.numberOfShares = TextToDecimal(RawNumber(asset.numberOfShares))]

\* The asset rows of the records, record by record.
RECURSIVE AssetRowsOf(_, _)
AssetRowsOf(records, current_date) ==
    IF records = <<>> THEN <<>>
    ELSE LET record == Head(records)
         IN  [i \in 1..Len(record.financialAssets) |->
                 AssetOfRecord(record, record.financialAssets[i], current_date)]
             \o AssetRowsOf(Tail(records), current_date)

\* new_billionaires and new_assets of main.
NewBillionaires(records, current_date) ==
    FrameOf([i \in 1..Len(records) |-> BillionaireOfRecord(records[i], current_date)],
            "billionaires")

NewAssets(records, current_date) ==
    FrameOf(AssetRowsOf(records, current_date), "assets")

\* existing_df after the run's date was removed from it: when the date is
\* among existing_dates, the rows whose date differs from it (a comparison
\* with a null date is null, and filter drops the row).
WithoutRunDate(existing, date) ==
    IF Len(existing.rows) > 0
       /\ \E i \in 1..Len(existing.rows) : existing.rows[i].date = date
    THEN [existing EXCEPT
            !.rows = SelectSeq(existing.rows,
                               LAMBDA r : ~IsNull(r.date) /\ r.date # date)]
    ELSE existing

\* update_dataset raises: existing_df has rows but no date column, or
\* pl.concat is handed frames whose columns differ.
UpdateRaises(new, existing, date) ==
    /\ Len(existing.rows) > 0
    /\ \/ "date" \notin ColumnSet(existing)
       \/ /\ Len(WithoutRunDate(existing, date).rows) > 0
          /\ existing.columns # new.columns

\* update_dataset that appends the batch to everything that was there.
update_dataset_AppendOnly(new, existing, date, sort_columns) ==
    SortedFrames(IF Len(existing.rows) > 0
                 THEN [existing EXCEPT !.rows = existing.rows \o new.rows]
                 ELSE new,
                 sort_columns)

\* update_dataset: the frames it can return (the sort leaves equal keys in
\* any order).
update_dataset(new, existing, date, sort_columns) ==
    LET kept == WithoutRunDate(existing, date)
    IN  SortedFrames(IF Len(kept.rows) > 0
                     THEN [kept EXCEPT !.rows = kept.rows \o new.rows]
                     ELSE new,
                     sort_columns)

\* load_or_create_parquet: the file as it is, or an empty frame of the
\* schema.
load_or_create_parquet(content, dtype) ==
    IF IsNull(content) THEN create_empty_dataset(dtype) ELSE Val(content)

(***************************************************************************)
(* zeroO_repair.py: clean_dataset                                          *)
(***************************************************************************)
\* One of unknown_patterns is found in the text: re.search of each, with
\* (?i) folding the letters of the patterns, \b a place with a word
\* character (\w) on exactly one side, and $ as AtDollar.
MatchesUnknownPatterns(s) ==
    LET WordChars ==
            Digits \cup {"_"} \cup
            {"a", "b", "c", "d", "e", "f", "g", "h", "i", "j", "k", "l", "m",
             "n", "o", "p", "q", "r", "s", "t", "u", "v", "w", "x", "y", "z",
             "A", "B", "C", "D", "E", "F", "G", "H", "I", "J", "K", "L", "M",
             "N", "O", "P", "Q", "R", "S", "T", "U", "V", "W", "X", "Y", "Z"}
        Fold(c) ==
            CASE c = "A" -> "a" [] c = "E" -> "e" [] c = "L" -> "l"
              [] OTHER -> Lower(c)
        \* The literal lit stands in s from position j on.
        LiteralAt(j, lit) ==
            /\ j >= 1
            /\ j + Len(lit) - 1 <= Len(s)
            /\ \A i \in 1..Len(lit) : Fold(s[j + i - 1]) = lit[i]
        \* \b after i characters of s.
        WordBoundary(i) ==
            (i >= 1 /\ s[i] \in WordChars) # (i < Len(s) /\ s[i + 1] \in WordChars)
        \* ^lit$
        MatchWhole(lit) == LiteralAt(1, lit) /\ AtDollar(s, Len(lit))
        \* \blit\b
        SearchWord(lit) ==
            \E j \in 1..Len(s) :
                /\ WordBoundary(j - 1)
                /\ LiteralAt(j, lit)
                /\ WordBoundary(j + Len(lit) - 1)
        \* \bunknown_-?\d+\b
        SearchUnknownNumbered ==
            LET lit == UnknownWord \o <<"_">>
            IN  \E j \in 1..Len(s) :
                    /\ WordBoundary(j - 1)
                    /\ LiteralAt(j, lit)
                    /\ \E m \in {0, 1} :
                        LET p == j + Len(lit) + m
                        IN  /\ m = 1 => (p - 1 <= Len(s) /\ s[p - 1] = "-")
                            /\ \E e \in p..Len(s) :
                                /\ \A i \in p..e : s[i] \in Digits
                                /\ WordBoundary(e)
        \* ^cc+$ and ^\?\?\?+$: n or more of the character c.
        MatchRun(c, n) ==
            \E e \in n..Len(s) :
                /\ \A i \in 1..e : s[i] = c
                /\ AtDollar(s, e)
    IN  \/ MatchUnknown(s)
        \/ MatchUnknownNumbered(s)
        \/ MatchWhole(<<"n", "/", "a">>) \/ MatchWhole(<<"n", "a">>)
        \/ MatchWhole(<<"u", "n", "k">>)
        \/ MatchRun("?", 3)
        \/ MatchRun("-", 2)
        \/ MatchWhole(<<"n", "o", "n", "e">>)
        \/ MatchWhole(<<"n", "u", "l", "l">>)
        \/ SearchWord(UnknownWord)
        \/ SearchUnknownNumbered
        \/ SearchWord(<<"n", "/", "a">>) \/ SearchWord(<<"n", "a">>)
        \/ SearchWord(<<"u", "n", "k">>)

\* clean_value of zeroO_repair.py
zeroO_clean_value(value) ==
    IF IsNull(value) THEN Null
    ELSE LET cleaned == Strip(Val(value))
         IN  IF cleaned = <<>> THEN Null
             ELSE IF MatchesUnknownPatterns(cleaned) THEN Null
             ELSE Some(cleaned)

\* clean_dataset: every Utf8 or Categorical column mapped through
\* clean_value; df.select(non_string_cols + cleaning_exprs) puts the other
\* columns first; the rows keep their positions.  A table without a text
\* column is returned as it is.
clean_dataset(frame) ==
    LET IsText(c)  == frame.dtypes[c] \in {"Utf8", "Categorical"}
        NotText(c) == ~IsText(c)
    IN  IF \A c \in ColumnSet(frame) : NotText(c) THEN frame
        ELSE [frame EXCEPT
                !.columns = SelectSeq(frame.columns, NotText)
                                \o SelectSeq(frame.columns, IsText),
                !.rows = [i \in 1..Len(frame.rows) |->
                            [c \in ColumnSet(frame) |->
                                IF IsText(c)
                                THEN zeroO_clean_value(frame.rows[i][c])
                                ELSE frame.rows[i][c]]]]

(***************************************************************************)
(* The command line jobs                                                   *)
(*                                                                         *)
(* pc = "shell": no job runs.  A job is started with its arguments in cfg, *)
(* runs step by step and ends back in the shell with its exit status in    *)
(* ret: what main returned ("True", "False", "None"), or "raised" when an  *)
(* exception left main.  prev holds the files as they were when the job    *)
(* started.                                                                *)
(***************************************************************************)
\* Largest number of jobs run one after the other.
MaxRuns == 2

\* Largest day a run is stamped with.
MaxDay == 2

BillionairesPath == "billionaires.parquet"

AssetsPath == "assets.parquet"

\* data_dir / f"{name}{args.output_suffix}.parquet" for a non-empty suffix.
SuffixedPath(dtype) ==
    IF dtype = "billionaires" THEN "billionaires_out.parquet" ELSE "assets_out.parquet"

\* backup_dir / f"{stem}_backup_{timestamp}{suffix}"
BackupPath(dtype) ==
    IF dtype = "billionaires" THEN "backups/billionaires_backup.parquet"
    ELSE "backups/assets_backup.parquet"

InputPath(dtype) == IF dtype = "billionaires" THEN BillionairesPath ELSE AssetsPath

DatasetPaths ==
    {BillionairesPath, AssetsPath, SuffixedPath("billionaires"), SuffixedPath("assets")}

BackupPaths == {BackupPath("billionaires"), BackupPath("assets")}

\* The arguments no job has read yet.
NoArgs ==
    [job |-> "none", dataset |-> "both", dry_run |-> FALSE, no_backup |-> FALSE,
     suffixed |-> FALSE, analyze_only |-> FALSE, orders |-> DefaultCfg,
     date |-> 1, run |-> 0]

\* A job starts: a new process, with the arguments of its command line and
\* the files the jobs before it left.
Start(args) ==
    /\ pc = "shell"
    /\ cfg.run < MaxRuns
    /\ cfg.date <= args.date
    /\ cfg' = [args EXCEPT !.run = cfg.run + 1]
    /\ prev' = disk
    /\ ret' = Null
    /\ op' = "none"

\* main returns, or an exception leaves it.
Exit(status) ==
    /\ pc' = "shell"
    /\ ret' = status

(***************************************************************************)
(* get_data.py: main                                                       *)
(***************************************************************************)
\* Two persons, one of them with a holding; a person without a name.
RecordA ==
    [personName |-> Some(TxtA), lastName |-> Some(TxtSmith), birthDate |-> Null,
     city |-> Some(TxtMiami), finalWorth |-> Some(5),
     financialAssets |-> <<[companyName |-> Some(<<"X">>), ticker |-> Some(<<"T">>),
                            numberOfShares |-> Some(7)]>>]

RecordB ==
    [personName |-> Some(TxtB), lastName |-> Some(<<>>),
     birthDate |-> Some(<<"2", "0", "2", "4", "-", "0", "1", "-", "0", "9">>),
     city |-> Null, finalWorth |-> Null, financialAssets |-> <<>>]

\* The record lists a URL can deliver.
Payloads == {<<RecordA>>, <<RecordB, RecordA>>}

\* main up to the first request: the session is opened.
StartUpdate ==
    /\ \E dry \in BOOLEAN, d \in 1..MaxDay :
            Start([NoArgs EXCEPT !.job = "update", !.dry_run = dry, !.date = d])
    /\ net' = [requested |-> <<>>, last |-> "none", data |-> Null]
    /\ dataset_type' = "billionaires"
    /\ df' = <<>>
    /\ pc' = "fetch"
    /\ UNCHANGED <<people_filter, disk>>

\* One turn of the loop of fetch_forbes_data: the next URL of the list is
\* requested.  A RequestException and a JSONDecodeError are caught and the
\* loop goes on, as it does after an empty record list; data.get of a
\* payload that is not an object raises AttributeError, which no except
\* clause of the function catches; a record list that is not empty is
\* returned.  After the last URL the function returns None.
FetchUrl ==
    /\ pc = "fetch"
    /\ \E kind \in ResponseKinds, payload \in Payloads :
        /\ net' = [requested |-> Append(net.requested, Len(net.requested) + 1),
                   last      |-> kind,
                   data      |-> IF kind = "records" THEN Some(payload) ELSE Null]
        /\ pc' = IF kind = "records" THEN "fetched"
                 ELSE IF kind = "not_object" THEN "fetch_raised"
                 ELSE IF Len(net.requested) + 1 < NumUrls THEN "fetch"
                 ELSE "fetched"
    /\ UNCHANGED <<dataset_type, prev, df, people_filter, cfg, op, disk, ret>>

\* main after fetch_forbes_data went wrong: no data (return False), or an
\* exception, caught by except Exception (return False).
UpdateFails ==
    /\ \/ pc = "fetched" /\ IsNull(net.data)
       \/ pc = "fetch_raised"
    /\ Exit("False")
    /\ UNCHANGED <<dataset_type, prev, df, people_filter, cfg, op, disk, net>>

\* process_forbes_data and apply_schema_transformations; a dry run ends
\* here with return True.
ProcessForbesData ==
    /\ pc = "fetched"
    /\ ~IsNull(net.data)
    /\ df' = [billionaires |-> NewBillionaires(Val(net.data), StrfDate(cfg.date)),
              assets       |-> NewAssets(Val(net.data), StrfDate(cfg.date))]
    /\ IF cfg.dry_run
       THEN Exit("True")
       ELSE pc' = "update" /\ UNCHANGED ret
    /\ UNCHANGED <<dataset_type, prev, people_filter, cfg, op, disk, net>>

\* load_or_create_parquet and update_dataset for both datasets; an exception
\* is caught by except Exception (return False).
UpdateDatasets ==
    /\ pc = "update"
    /\ LET existing_b == load_or_create_parquet(disk[BillionairesPath], "billionaires")
           existing_a == load_or_create_parquet(disk[AssetsPath], "assets")
           date       == StrpDateCompact(StrfDate(cfg.date))
       IN  IF UpdateRaises(df.billionaires, existing_b, date)
              \/ UpdateRaises(df.assets, existing_a, date)
           THEN Exit("False") /\ UNCHANGED df
           ELSE /\ \E b \in update_dataset(df.billionaires, existing_b, date,
                                           <<"personName", "date">>),
                      a \in update_dataset(df.assets, existing_a, date,
                                           <<"personName", "companyName",
                                             "interactive", "date">>) :
                        df' = [billionaires |-> b, assets |-> a]
                /\ pc' = "write_billionaires"
                /\ UNCHANGED ret
    /\ UNCHANGED <<dataset_type, prev, people_filter, cfg, op, disk, net>>

\* final_billionaires.write_parquet(billionaires_path, ...)
WriteBillionaires ==
    /\ pc = "write_billionaires"
    /\ disk' = [disk EXCEPT ![BillionairesPath] = Some(df.billionaires)]
    /\ pc' = "write_assets"
    /\ UNCHANGED <<dataset_type, prev, df, people_filter, cfg, op, net, ret>>

\* final_assets.write_parquet(assets_path, ...); return True
WriteAssets ==
    /\ pc = "write_assets"
    /\ disk' = [disk EXCEPT ![AssetsPath] = Some(df.assets)]
    /\ Exit("True")
    /\ UNCHANGED <<dataset_type, prev, df, people_filter, cfg, op, net>>

(***************************************************************************)
(* data_lib: load_data, save_data (imported by the repair CLIs)            *)
(***************************************************************************)
\* load_data(file_path, dataset_type): the stored table under the schema of
\* its dataset type.
load_data(content, dtype) == LoadedFrame(Val(content), dtype)

\* save_data(df, output_path, dataset_type): the files it can leave.
save_data(frame, dtype) == FramesToWrite(frame, dtype)

(***************************************************************************)
(* sanity_repair.py: main                                                  *)
(***************************************************************************)
\* --no-0th-order ... --no-3rd-order all given.
NoOrders ==
    [apply_0th |-> FALSE, apply_1st |-> FALSE, apply_2nd |-> FALSE, apply_3rd |-> FALSE]

\* The locals of main of a repair CLI before the first dataset.
NoResults ==
    [table |-> Null, success |-> TRUE,
     all_results |-> [billionaires |-> "none", assets |-> "none"]]

\* The first dataset main handles for --dataset.
FirstDataset(selection) == IF selection = "assets" THEN "assets" ELSE "billionaires"

\* Where the run writes the dataset: the input file, or the suffixed copy.
OutputPath(dtype) == IF cfg.suffixed THEN SuffixedPath(dtype) ELSE InputPath(dtype)

\* main goes on after a dataset: to the assets when both were asked for
\* and the billionaires are done, to its end otherwise.
NextDataset(after) ==
    IF dataset_type = "billionaires" /\ cfg.dataset = "both"
    THEN dataset_type' = "assets" /\ pc' = "dataset"
    ELSE dataset_type' = dataset_type /\ pc' = after

\* main up to repair_orders.
StartSanityRepair ==
    /\ \E selection \in {"billionaires", "assets", "both"},
          dry \in BOOLEAN, nb \in BOOLEAN, suffixed \in BOOLEAN,
          orders \in {DefaultCfg, NoOrders} :
            /\ nb => ~suffixed
            /\ Start([NoArgs EXCEPT !.job = "sanity_repair", !.dataset = selection,
                                    !.dry_run = dry, !.no_backup = nb,
                                    !.suffixed = suffixed, !.orders = orders,
                                    !.date = cfg.date])
            /\ dataset_type' = FirstDataset(selection)
    /\ df' = NoResults
    /\ net' = NoSession
    /\ pc' = "orders"
    /\ UNCHANGED <<people_filter, disk>>

\* if not enabled_orders: return True
SanityOrders ==
    /\ pc = "orders"
    /\ IF cfg.orders = NoOrders
       THEN Exit("True")
       ELSE pc' = "dataset" /\ UNCHANGED ret
    /\ UNCHANGED <<dataset_type, prev, df, people_filter, cfg, op, disk, net>>

\* main and process_dataset up to the analysis before the repair: a file
\* that does not exist fails the run, an empty table is reported as such,
\* another one is loaded.
SanityLoad ==
    /\ pc = "dataset"
    /\ cfg.job = "sanity_repair"
    /\ LET content == disk[InputPath(dataset_type)]
       IN  IF IsNull(content)
           THEN /\ df' = [df EXCEPT !.success = FALSE]
                /\ NextDataset("summary")
           ELSE IF Len(load_data(content, dataset_type).rows) = 0
           THEN /\ df' = [df EXCEPT !.all_results[dataset_type] = "empty"]
                /\ NextDataset("summary")
           ELSE /\ df' = [df EXCEPT !.table = Some(load_data(content, dataset_type))]
                /\ dataset_type' = dataset_type
                /\ pc' = "backup"
    /\ UNCHANGED <<prev, people_filter, cfg, op, disk, net, ret>>

\* process_dataset that creates the backup whenever a backup directory is
\* given, in a dry run too.
SanityBackup_InDryRun ==
    /\ pc = "backup"
    /\ disk' = IF ~cfg.no_backup
               THEN [disk EXCEPT ![BackupPath(dataset_type)] =
                                    disk[InputPath(dataset_type)]]
               ELSE disk
    /\ pc' = "repair"
    /\ UNCHANGED <<dataset_type, prev, df, people_filter, cfg, op, net, ret>>

\* process_dataset without the call of create_backup.
SanityBackup_Skipped ==
    /\ pc = "backup"
    /\ disk' = disk
    /\ pc' = "repair"
    /\ UNCHANGED <<dataset_type, prev, df, people_filter, cfg, op, net, ret>>

\* if not dry_run and backup_dir: create_backup(file_path, backup_dir)
SanityBackup ==
    /\ pc = "backup"
    /\ disk' = IF ~cfg.dry_run /\ ~cfg.no_backup
               THEN [disk EXCEPT ![BackupPath(dataset_type)] =
                                    disk[InputPath(dataset_type)]]
               ELSE disk
    /\ pc' = "repair"
    /\ UNCHANGED <<dataset_type, prev, df, people_filter, cfg, op, net, ret>>

\* repaired_df = repair_all_orders(original_df, ...).  The call raises when
\* the 1st order does, and it can raise for a reason the table does not
\* decide (an error of the library, no memory left); main catches nothing.
SanityRepair ==
    /\ pc = "repair"
    /\ LET rows == Val(df.table).rows
       IN  \/ /\ Exit("raised")
              /\ UNCHANGED df
           \/ /\ ~RepairAllOrdersRaises(rows, dataset_type, Null, cfg.orders)
              /\ \E out \in repair_all_orders(rows, dataset_type, Null, cfg.orders) :
                    df' = [df EXCEPT !.table = Some([Val(df.table) EXCEPT !.rows = out])]
              /\ pc' = "save"
              /\ UNCHANGED ret
    /\ UNCHANGED <<dataset_type, prev, people_filter, cfg, op, disk, net>>

\* save_data(repaired_df, output_path, dataset_type) unless dry_run; the
\* results are kept and main goes on.
SanitySave ==
    /\ pc = "save"
    /\ IF cfg.dry_run
       THEN disk' = disk
       ELSE \E f \in save_data(Val(df.table), dataset_type) :
                disk' = [disk EXCEPT ![OutputPath(dataset_type)] = Some(f)]
    /\ df' = [df EXCEPT !.table = Null, !.all_results[dataset_type] = "done"]
    /\ NextDataset("summary")
    /\ UNCHANGED <<prev, people_filter, cfg, op, net, ret>>

\* generate_repair_summary when success and all_results; return success.
\* The summary divides by the number of records of the tables that were
\* not empty: ZeroDivisionError when every table was.
SanitySummary ==
    /\ pc = "summary"
    /\ LET results == {df.all_results[d] : d \in DOMAIN df.all_results} \ {"none"}
       IN  IF df.success /\ results = {"empty"}
           THEN Exit("raised")
           ELSE Exit(IF df.success THEN "True" ELSE "False")
    /\ UNCHANGED <<dataset_type, prev, df, people_filter, cfg, op, disk, net>>

(***************************************************************************)
(* deduplicate.py: main                                                    *)
(***************************************************************************)
\* main up to the first dataset.
StartDeduplicate ==
    /\ \E selection \in {"billionaires", "assets", "both"},
          dry \in BOOLEAN, analyze \in BOOLEAN, suffixed \in BOOLEAN :
            /\ analyze => (~dry /\ suffixed)
            /\ Start([NoArgs EXCEPT !.job = "deduplicate", !.dataset = selection,
                                    !.dry_run = dry, !.analyze_only = analyze,
                                    !.suffixed = suffixed, !.date = cfg.date])
            /\ dataset_type' = FirstDataset(selection)
    /\ df' = NoResults
    /\ net' = NoSession
    /\ pc' = "dataset"
    /\ UNCHANGED <<people_filter, disk>>

\* One dataset of main: a file that does not exist fails the run; with
\* --analyze-only the table is only loaded and analysed; otherwise
\* process_dataset loads it, cleans and deduplicates it and, unless
\* dry_run, saves it.  After the last dataset main returns success.
DeduplicateDataset ==
    /\ pc = "dataset"
    /\ cfg.job = "deduplicate"
    /\ LET content == disk[InputPath(dataset_type)]
           success == df.success /\ ~IsNull(content)
       IN  /\ IF IsNull(content) \/ cfg.analyze_only \/ cfg.dry_run
              THEN disk' = disk
              ELSE LET loaded == load_data(content, dataset_type)
                   IN  \E out \in repair_deduplication(loaded.rows, dataset_type) :
                       \E f \in save_data([loaded EXCEPT !.rows = out], dataset_type) :
                            disk' = [disk EXCEPT ![OutputPath(dataset_type)] = Some(f)]
           /\ df' = [df EXCEPT !.success = success]
           /\ IF dataset_type = "billionaires" /\ cfg.dataset = "both"
              THEN dataset_type' = "assets" /\ pc' = "dataset" /\ UNCHANGED ret
              ELSE dataset_type' = dataset_type
                   /\ Exit(IF success THEN "True" ELSE "False")
    /\ UNCHANGED <<prev, people_filter, cfg, op, net>>

(***************************************************************************)
(* zeroO_repair.py: main                                                   *)
(***************************************************************************)
\* main up to the first dataset.
StartZeroRepair ==
    /\ \E selection \in {"billionaires", "assets", "both"},
          dry \in BOOLEAN, suffixed \in BOOLEAN :
            /\ Start([NoArgs EXCEPT !.job = "zeroO_repair", !.dataset = selection,
                                    !.dry_run = dry, !.suffixed = suffixed,
                                    !.date = cfg.date])
            /\ dataset_type' = FirstDataset(selection)
    /\ df' = NoResults
    /\ net' = NoSession
    /\ pc' = "dataset"
    /\ UNCHANGED <<people_filter, disk>>

\* One dataset of main: process_dataset returns None for a file that does
\* not exist; otherwise it reads the file as it is, cleans it and, unless
\* dry_run, writes it.  main returns nothing.
ZeroRepairDataset ==
    /\ pc = "dataset"
    /\ cfg.job = "zeroO_repair"
    /\ LET content == disk[InputPath(dataset_type)]
       IN  /\ disk' = IF IsNull(content) \/ cfg.dry_run THEN disk
                      ELSE [disk EXCEPT ![OutputPath(dataset_type)] =
                                            Some(clean_dataset(Val(content)))]
           /\ IF dataset_type = "billionaires" /\ cfg.dataset = "both"
              THEN dataset_type' = "assets" /\ pc' = "dataset" /\ UNCHANGED ret
              ELSE dataset_type' = dataset_type /\ Exit("None")
    /\ UNCHANGED <<prev, df, people_filter, cfg, op, net>>

(***************************************************************************)
(* The files the jobs find                                                 *)
(***************************************************************************)
\* A stored table in need of repair: two rows for one person and date, a
\* blank text, a row without a date.
StoredBillionaires ==
    FrameOf(<<BRow(Null, Some(TxtA), Null, Null, Some(5)),
              BRow(Some(1), Some(TxtB), Some(TxtSmith), Some(TxtMiami), Some(7)),
              BRow(Some(1), Some(TxtB), Null, Some(<<" ">>), Some(5))>>,
            "billionaires")

StoredAssets ==
    FrameOf(<<[ARow(Some(1), Some(TxtB), Some(<<"T">>), Some(5)) EXCEPT
                    !.companyName = Some(<<"X", " ">>)],
              [ARow(Some(1), Some(TxtB), Some(<<"T">>), Some(7)) EXCEPT
                    !.companyName = Some(<<"X", " ">>)]>>,
            "assets")

\* A file of an earlier layout, without the column city.
OldBillionaires == WithoutColumn(StoredBillionaires, "city")

\* The data directory before the first job: each dataset file is absent,
\* empty or filled; no output copy, no backup.
JobDisks ==
    {[p \in DatasetPaths \cup BackupPaths |->
        IF p = BillionairesPath THEN b ELSE IF p = AssetsPath THEN a ELSE Null] :
        b \in {Null, Some(FrameOf(<<>>, "billionaires")), Some(StoredBillionaires),
               Some(OldBillionaires)},
        a \in {Null, Some(FrameOf(<<>>, "assets")), Some(StoredAssets)}}

InitJobs ==
    /\ dataset_type = "billionaires"
    /\ disk \in JobDisks
    /\ prev = disk
    /\ df = <<>>
    /\ people_filter = Null
    /\ cfg = NoArgs
    /\ op = "none"
    /\ pc = "shell"
    /\ net = NoSession
    /\ ret = Null

NextJobs ==
    \/ StartUpdate
    \/ FetchUrl
    \/ UpdateFails
    \/ ProcessForbesData
    \/ UpdateDatasets
    \/ WriteBillionaires
    \/ WriteAssets
    \/ StartSanityRepair
    \/ SanityOrders
    \/ SanityLoad
    \/ SanityBackup
    \/ SanityRepair
    \/ SanitySave
    \/ SanitySummary
    \/ StartDeduplicate
    \/ DeduplicateDataset
    \/ StartZeroRepair
    \/ ZeroRepairDataset

SpecJobs == InitJobs /\ [][NextJobs]_vars

(***************************************************************************)
(* Properties of the jobs                                                  *)
(***************************************************************************)
\* C12: fetch_forbes_data requests the URLs in list order; whatever goes
\* wrong with one URL (network error, bad status, malformed JSON, a payload
\* of unexpected shape, no records) makes it go on to the next URL; the
\* first record list that is not empty is returned and no URL is requested
\* after it; failure is reported only when every URL has been tried.
C12_FetchFallsThrough ==
    [][/\ pc = "fetch" =>
            /\ net'.requested = Append(net.requested, Len(net.requested) + 1)
            /\ IF net'.last = "records"
               THEN pc' = "fetched" /\ ~IsNull(net'.data)
               ELSE IF Len(net'.requested) < NumUrls
                    THEN pc' = "fetch"
                    ELSE pc' = "fetched" /\ IsNull(net'.data)
       /\ pc \notin {"fetch", "shell"} => net' = net]_vars

\* C15: an ingestion run only adds its batch: every row of a dataset file
\* before the run is a row of the file after the run, with the same values.
C15_IngestionOnlyAdds ==
    (pc = "shell" /\ cfg.job = "update") =>
        \A p \in {BillionairesPath, AssetsPath} :
            ~IsNull(prev[p]) =>
                /\ ~IsNull(disk[p])
                /\ RowsAmong(Val(prev[p]).rows, Val(disk[p]).rows)

\* The run that just ended failed the way C13 speaks of: the update job
\* after every URL was requested without a payload, or the repair CLI
\* with an exception out of repair_all_orders.
UrlsExhausted ==
    /\ cfg.job = "update"
    /\ ret = "False"
    /\ Len(net.requested) = NumUrls
    /\ IsNull(net.data)

RepairStageRaised ==
    /\ cfg.job = "sanity_repair"
    /\ ret = "raised"
    /\ ~IsNull(df.table)

\* C13: a run that fails (the update job with every URL exhausted, the
\* repair CLI with an exception of a repair stage) leaves every dataset
\* file as it was before the run: none is created, none is overwritten.
C13_FailedRunLeavesFiles ==
    (pc = "shell" /\ (UrlsExhausted \/ RepairStageRaised)) =>
        \A p \in DatasetPaths : disk[p] = prev[p]

\* C14: a run with the dry-run flag (update job, repair CLI, dedup CLI,
\* 0th-order CLI) writes no dataset file and no backup file: from its start
\* to its end the files are those the run found.
C14_DryRunWritesNothing ==
    (cfg.job \in {"update", "sanity_repair", "deduplicate", "zeroO_repair"}
        /\ cfg.dry_run) => disk = prev

\* A dry run of the repair CLI over both datasets has ended, the repairs of
\* both computed and reported.
C14_Witness ==
    /\ pc = "shell"
    /\ cfg.job = "sanity_repair"
    /\ cfg.dry_run
    /\ ~cfg.no_backup
    /\ ret = "True"
    /\ df.all_results = [billionaires |-> "done", assets |-> "done"]

\* A cell that holds no value: missing, or the empty text the data model
\* normalises to missing.
NoValue(r, f) == IsNull(r[f]) \/ (f \in TextColumns /\ r[f] = Some(<<>>))

\* The rows of the partition of row i of t that hold a value of field f and
\* whose date no other such row of the partition exceeds.
MostRecentKnown(t, i, f) ==
    LET known == {k \in RowsOfPerson(t, t[i].personName) : ~NoValue(t[k], f)}
    IN  {k \in known : \A j \in known : DateAsc(t[j].date, t[k].date)}

\* C17: the 1st order repair without a filter follows the reference rule
\* row by row: a static field of a row holds the value of a row of its
\* partition that is the most recent among those with a value of the field,
\* it is missing only if no row of the partition has a value, and every
\* other column of the row is as it was.
C17_IdentityReference ==
    (HasReturned("1st") /\ people_filter = Null) =>
        /\ Len(df) = Len(prev)
        /\ \A i \in 1..Len(prev) :
            \A c \in DOMAIN prev[i] :
                IF c \in {"lastName", "birthDate", "gender"}
                THEN IF MostRecentKnown(prev, i, c) = {}
                     THEN IsNull(df[i][c])
                     ELSE \E k \in MostRecentKnown(prev, i, c) : df[i][c] = prev[k][c]
                ELSE df[i][c] = prev[i][c]

\* The value the reference rule of the 2nd order gives field f of row i of
\* the timeline s, known being the rows of its person that have a value:
\* its own value; if it has none, the value of the latest row before it
\* that has one; if there is none, that of the earliest row after it;
\* missing if the person has no value at all.
FillFrom(s, i, f, known) ==
    LET earlier == {k \in known : k < i}
        later   == {k \in known : k > i}
    IN  IF i \in known THEN s[i][f]
        ELSE IF earlier # {} THEN s[CHOOSE k \in earlier : \A j \in earlier : j <= k][f]
        ELSE IF later # {} THEN s[CHOOSE k \in later : \A j \in later : k <= j][f]
        ELSE Null

\* The rule with every cell that is not missing counted as a value.
ClaimedFill(s, i, f) ==
    FillFrom(s, i, f, {k \in RowsOfPerson(s, s[i].personName) : ~IsNull(s[k][f])})

\* The rule with the empty text counted as missing.
ReferenceFill(s, i, f) ==
    FillFrom(s, i, f, {k \in RowsOfPerson(s, s[i].personName) : ~NoValue(s[k], f)})

\* The rows of each person stand in s in the order of their dates.
IsTimeline(s) ==
    \A i, j \in 1..Len(s) :
        (i < j /\ s[i].personName = s[j].personName) => DateAsc(s[i].date, s[j].date)

\* C18 as claimed: the 2nd order repair without a filter follows the
\* reference rule, where a value that was not missing is never changed.
C18_FillReference_Claimed ==
    (HasReturned("2nd") /\ people_filter = Null) =>
        \E s \in Reorderings(prev) :
            /\ IsTimeline(s)
            /\ \A i \in 1..Len(s) :
                \A c \in DOMAIN s[i] :
                    df[i][c] = IF c \in SlowFields THEN ClaimedFill(s, i, c) ELSE s[i][c]

\* C18 as amended: the 2nd order repair without a filter follows the
\* reference rule with the empty text counted as missing:
\* its result is the input, each person's rows in the order of their dates,
\* where a slowly-changing value that was known is kept, a missing one is
\* taken from the latest earlier row of the person that has one and, only
\* without such a row, from the earliest later one; every other column is
\* as it was.
C18_FillReference ==
    (HasReturned("2nd") /\ people_filter = Null) =>
        \E s \in Reorderings(prev) :
            /\ IsTimeline(s)
            /\ \A i \in 1..Len(s) :
                \A c \in DOMAIN s[i] :
                    df[i][c] =
                        IF c \in {"countryOfCitizenship", "city", "state", "source",
                                  "industries"}
                        THEN ReferenceFill(s, i, c)
                        ELSE s[i][c]

\* C18 happens: a person had a city on day 1, none on day 2 and another
\* city on day 3; the row of day 2 came back with the city of day 1.
C18_Witness ==
    /\ HasReturned("2nd") /\ people_filter = Null
    /\ \E i, j, k \in 1..Len(prev) :
        /\ prev[i].personName = prev[j].personName
        /\ prev[j].personName = prev[k].personName
        /\ prev[i].date = Some(1) /\ prev[j].date = Some(2) /\ prev[k].date = Some(3)
        /\ prev[i].city = Some(TxtMiami)
        /\ IsNull(prev[j].city)
        /\ prev[k].city = Some(TxtParis)
        /\ \E m \in 1..Len(df) : df[m].date = Some(2) /\ df[m].city = Some(TxtMiami)

\* The distance in days between two dates.
DaysApart(a, b) == IF Val(a) >= Val(b) THEN Val(a) - Val(b) ELSE Val(b) - Val(a)

\* C19 as claimed: a value the 2nd order repair (without a filter) fills
\* into a dated row is the value of a row of the same person that had one
\* and whose date is the closest to the date of the filled row.
C19_NearestObservation_Claimed ==
    (HasReturned("2nd") /\ people_filter = Null) =>
        \E s \in Reorderings(prev) :
            /\ IsTimeline(s)
            /\ \A i \in 1..Len(s) :
                /\ \A c \in DOMAIN s[i] \ SlowFields : df[i][c] = s[i][c]
                /\ \A f \in SlowFields :
                    (NoValue(s[i], f) /\ ~IsNull(df[i][f]) /\ ~IsNull(s[i].date)) =>
                        LET known == {k \in RowsOfPerson(s, s[i].personName) :
                                        ~NoValue(s[k], f) /\ ~IsNull(s[k].date)}
                        IN  \E k \in known :
                                /\ df[i][f] = s[k][f]
                                /\ \A j \in known :
                                    DaysApart(s[k].date, s[i].date)
                                        <= DaysApart(s[j].date, s[i].date)

\* C19 as amended: a value the 2nd order repair (without a filter) fills in
\* is the value of the nearest known observation of the same person in the
\* direction of the fill: of the last row before the filled one in the
\* person's timeline that had a value, and of the first row after it only
\* when no row before it had one.
C19_NearestObservation ==
    (HasReturned("2nd") /\ people_filter = Null) =>
        \E s \in Reorderings(prev) :
            /\ IsTimeline(s)
            /\ \A i \in 1..Len(s) :
                /\ \A c \in DOMAIN s[i] \ SlowFields : df[i][c] = s[i][c]
                /\ \A f \in SlowFields :
                    (NoValue(s[i], f) /\ ~IsNull(df[i][f])) =>
                        LET known  == {k \in RowsOfPerson(s, s[i].personName) :
                                        ~NoValue(s[k], f)}
                            before == {k \in known : k < i}
                        IN  \E k \in known :
                                /\ df[i][f] = s[k][f]
                                /\ IF before # {}
                                   THEN k < i /\ \A j \in before : j <= k
                                   ELSE \A j \in known : k <= j

\* C19 happens: a person had a city on day 1, none on day 3 and another one
\* on day 4; the row of day 3 came back with the city of day 1, not with the
\* one of the nearer day 4.
C19_Witness ==
    /\ HasReturned("2nd") /\ people_filter = Null
    /\ Len(prev) = 3 /\ Len(df) = 3
    /\ \A i \in 1..3 : prev[i].personName = Some(TxtA)
    /\ \E i, j, k \in 1..3 :
        /\ prev[i].date = Some(1) /\ prev[i].city = Some(TxtMiami)
        /\ prev[j].date = Some(3) /\ IsNull(prev[j].city)
        /\ prev[k].date = Some(4) /\ prev[k].city = Some(TxtParis)
    /\ \E m \in 1..3 : df[m].date = Some(3) /\ df[m].city = Some(TxtMiami)

\* The text s without the whitespace before its first and after its last
\* character that is not whitespace (the empty text if it has none).
Trimmed(s) ==
    LET solid == {i \in 1..Len(s) : s[i] \notin Whitespace}
    IN  IF solid = {} THEN <<>>
        ELSE SubSeq(s, CHOOSE i \in solid : \A j \in solid : i <= j,
                       CHOOSE i \in solid : \A j \in solid : j <= i)

\* The cleaning rule of the specification on one text cell.
CleaningRule(c) ==
    IF IsNull(c) THEN Null
    ELSE IF Trimmed(Val(c)) = <<>> \/ IsUnknownMarker(Trimmed(Val(c))) THEN Null
    ELSE Some(Trimmed(Val(c)))

\* C20: the 0th order repair is the pointwise map of the cleaning rule: row
\* i of the output holds the cleaning rule's value of every text cell of row
\* i of the input and every other cell as it was; no row is added, dropped
\* or moved.
C20_PointwiseCleaning ==
    HasReturned("0th") =>
        /\ Len(df) = Len(prev)
        /\ \A i \in 1..Len(prev) :
            /\ DOMAIN df[i] = DOMAIN prev[i]
            /\ \A c \in DOMAIN prev[i] :
                df[i][c] = IF c \in TextColumns THEN CleaningRule(prev[i][c])
                           ELSE prev[i][c]

\* C20 happens: a table of MaxRows rows was cleaned whose first row held
\* "  unknown_42  " in one text cell, a text that only contains "unknown" in
\* another, and a number; the first is missing, the other two are kept.
C20_Witness ==
    /\ HasReturned("0th")
    /\ Len(prev) = MaxRows
    /\ prev[1].lastName = Some(TxtUnknown42)
    /\ IsNull(df[1].lastName)
    /\ prev[1].city = Some(UnknownWord \o <<" ", "A">>)
    /\ df[1].city = prev[1].city
    /\ prev[1].finalWorth = Some(5)
    /\ df[1].finalWorth = Some(5)
    /\ df[MaxRows] # df[1]

UpdateWritten ==
    /\ pc = "shell"
    /\ cfg.job = "update"
    /\ ~cfg.dry_run
    /\ ret = "True"

\* The stored rows of a file, none for a file that is absent.
StoredRows(content) == IF IsNull(content) THEN <<>> ELSE Val(content).rows

\* The batch of the run that just ended, for the dataset of path p.
BatchRows(p) ==
    IF p = BillionairesPath
    THEN NewBillionaires(Val(net.data), StrfDate(cfg.date)).rows
    ELSE NewAssets(Val(net.data), StrfDate(cfg.date)).rows

\* C22: after update_dataset for run date d the rows of the table dated d
\* are exactly the rows of the new batch, the rows of every other date
\* (the rows without a date among them) are exactly those stored before,
\* and a run whose batch is what the table already holds for d leaves the
\* table as it was.
C22_RunDateReplaced ==
    UpdateWritten =>
        \A p \in {BillionairesPath, AssetsPath} :
            LET d      == Some(cfg.date)
                before == StoredRows(prev[p])
                after  == StoredRows(disk[p])
            IN  /\ SameRows(SelectSeq(after, LAMBDA r : r.date = d), BatchRows(p))
                /\ SameRows(SelectSeq(after, LAMBDA r : r.date # d),
                            SelectSeq(before, LAMBDA r : r.date # d))
                /\ SameRows(SelectSeq(before, LAMBDA r : r.date = d), BatchRows(p))
                        => SameRows(after, before)

WithStaticValue(t, r, f) ==
    {i \in 1..Len(t) :
        /\ \A c \in DOMAIN r \ {"lastName", "birthDate", "gender"} : t[i][c] = r[c]
        /\ ~NoValue(t[i], f)}

\* C24: the 1st order repair, with or without a filter, never replaces a
\* static identity value by missing: each input row with a value (neither
\* missing nor the empty text) of lastName, birthDate or gender is still
\* there with a value of that field, the rows without personName included.
C24_StaticValueKept ==
    HasReturned("1st") =>
        \A i \in 1..Len(prev) :
            \A f \in {"lastName", "birthDate", "gender"} :
                ~NoValue(prev[i], f) =>
                    Cardinality(WithStaticValue(df, prev[i], f))
                        >= Cardinality(WithStaticValue(prev, prev[i], f))

\* C25: the 3rd order repair collapses two rows only when all components
\* of their natural key are equal: of two identifiable input rows whose
\* keys differ in a component (a missing date and a text with the
\* separator in it included), both keys have a row in the output.
C25_DistinctKeysSurvive ==
    HasReturned("3rd") =>
        \A i, j \in 1..Len(prev) :
            (/\ Identifiable(prev[i], dataset_type)
             /\ Identifiable(prev[j], dataset_type)
             /\ NaturalKey(prev[i], dataset_type) # NaturalKey(prev[j], dataset_type)) =>
                /\ KeyGroup(df, NaturalKey(prev[i], dataset_type), dataset_type) # {}
                /\ KeyGroup(df, NaturalKey(prev[j], dataset_type), dataset_type) # {}

\* The rows of t of the persons of the filter F, and the other rows.
RowsInFilter(t, F) ==
    SelectSeq(t, LAMBDA r : ~IsNull(r.personName) /\ Val(r.personName) \in F)

RowsOutsideFilter(t, F) ==
    SelectSeq(t, LAMBDA r : IsNull(r.personName) \/ Val(r.personName) \notin F)

\* The rows outside the filter F are already repaired: the repair without
\* a filter returns them as they are.
AlreadyRepaired(t, dtype, F, c) ==
    /\ ~RepairAllOrdersRaises(t, dtype, Null, c)
    /\ \A u \in repair_all_orders(t, dtype, Null, c) :
            SameRows(RowsOutsideFilter(u, F), RowsOutsideFilter(t, F))

\* C26: the identity filter changes nothing for the persons it names: the
\* rows of the persons of a non-empty filter F that the filtered 1st order
\* (2nd order) returns are the rows of those persons in a result of the
\* unfiltered 1st order (2nd order); and on a table whose rows outside F
\* are already repaired, the result of repair_all_orders with F holds the
\* rows of a result of repair_all_orders without a filter.
C26_FilterPreserves ==
    FilterGiven(people_filter) =>
        LET F == Val(people_filter)
        IN  /\ (pc = "stage2" /\ op = "1st" /\ ~cfg.apply_0th) =>
                    \E u \in repair_identity_consistency(prev, Null) :
                        SameRows(RowsInFilter(df, F), RowsInFilter(u, F))
            /\ (pc = "stage3" /\ op = "2nd" /\ ~cfg.apply_0th /\ ~cfg.apply_1st) =>
                    \E u \in repair_second_order_fields(prev, Null) :
                        SameRows(RowsInFilter(df, F), RowsInFilter(u, F))
            /\ (pc = "done" /\ AlreadyRepaired(prev, dataset_type, F, cfg)) =>
                    \E u \in repair_all_orders(prev, dataset_type, Null, cfg) :
                        SameRows(df, u)

\* C27: with the empty list as identity filter the 1st and the 2nd order
\* repair work on no person: every row comes back with its static identity
\* and slowly-changing fields (and so, these stages touching no other
\* column, as a whole) unchanged.
C27_EmptyFilterRepairsNobody ==
    (HasReturned(op) /\ op \in {"1st", "2nd"} /\ people_filter = Some({})) =>
        SameRows(df, prev)

\* C28: when no row is selected for the identity repair (the table has no
\* row, or the filter names only persons without a row), the call of
\* repair_identity_consistency does not raise and returns the rows it was
\* given.
C28_NothingSelectedReturns ==
    (op = "1st" /\ pc # "idle" /\ IdentityRelevant(prev, people_filter) = <<>>) =>
        /\ pc # "raised"
        /\ SameRows(df, prev)

\* The dataset files a run of the repair CLI selects.
SelectedPaths ==
    {InputPath(d) : d \in IF cfg.dataset = "both" THEN {"billionaires", "assets"}
                          ELSE {cfg.dataset}}

\* C29: a run of the repair CLI that found every selected dataset file
\* present and with zero rows ends reporting success, without an unhandled
\* error, and has written no file.
C29_EmptyFilesSucceed ==
    (/\ pc = "shell"
     /\ cfg.job = "sanity_repair"
     /\ \A p \in SelectedPaths : ~IsNull(prev[p]) /\ Len(Val(prev[p]).rows) = 0) =>
        /\ ret = "True"
        /\ disk = prev

\* C30: the pipeline is idempotent: repair_all_orders run again, with the
\* same dataset type, filter and stage configuration, over the table it
\* returned, returns the same rows with the same values.
C30_PipelineIdempotent ==
    pc = "done" =>
        /\ ~RepairAllOrdersRaises(df, dataset_type, people_filter, cfg)
        /\ \A u \in repair_all_orders(df, dataset_type, people_filter, cfg) :
                SameRows(u, df)
====
